---- MODULE Spec2Model ----
\* The retrieval-augmented answering core of Preda: the per-session index cache
\* (app/rag/vector_store.py), the safety triage (app/safety/triage.py), the
\* orchestrator run_rag with its backend call and offline fallback
\* (app/rag/pipeline.py) and the chunk rows its caller reads (app/rag/routes.py,
\* app/upload/routes.py, app/intake/routes.py).
\*
\* Text is a sequence of one-character strings; a character outside ASCII is the
\* token "U+XXXX" of its code point.  Optional values (Python None) are <<>> for
\* None and <<v>> for a value v.  Similarity scores are in hundredths.
EXTENDS Integers, Sequences, FiniteSets, TLC

\* ---------------------------------------------------------------- bounds
NumRows == 2
MaxBuilds == 2
\* words joined into one text given to check_safety
MaxPieces == 2
\* results in a list given to is_retrieval_sufficient or _fallback_answer
MaxRetrieved == 4
\* words of a text given to chunk_text
MaxWords == 5
\* largest chunk_size and overlap given to chunk_text
MaxChunkSize == 3

\* ------------------------------------------------------ program constants
MIN_RETRIEVAL_SCORE == 5
TOP_N == 5
EXCERPT_LEN == 300
CONTEXT_LEN == 600
FB_CHUNKS == 3
FB_LINES == 4
FB_MIN_LINE == 10

\* EMERGENCY_TRIGGERS: the categories in the order the dict lists them, each with its
\* phrases in listed order (a Python dict iterates in insertion order).
CATEGORY_ORDER ==
    <<"cardiac", "stroke", "respiratory", "mental_health_crisis", "severe_allergic", "unconscious">>

EMERGENCY_TRIGGERS ==
    [cardiac |-> <<
        <<"c", "h", "e", "s", "t", " ", "p", "a", "i", "n">>,
        <<"c", "h", "e", "s", "t", " ", "t", "i", "g", "h", "t", "n", "e", "s", "s">>,
        <<"c", "h", "e", "s", "t", " ", "p", "r", "e", "s", "s", "u", "r", "e">>,
        <<"l", "e", "f", "t", " ", "a", "r", "m", " ", "p", "a", "i", "n">>,
        <<"l", "e", "f", "t", " ", "a", "r", "m", " ", "n", "u", "m", "b", "n", "e", "s", "s">>,
        <<"h", "e", "a", "r", "t", " ", "a", "t", "t", "a", "c", "k">>,
        <<"c", "r", "u", "s", "h", "i", "n", "g", " ", "c", "h", "e", "s", "t">>,
        <<"j", "a", "w", " ", "p", "a", "i", "n", " ", "w", "i", "t", "h", " ", "c", "h", "e", "s", "t">>
     >>,
     stroke |-> <<
        <<"f", "a", "c", "i", "a", "l", " ", "d", "r", "o", "o", "p", "i", "n", "g">>,
        <<"f", "a", "c", "e", " ", "d", "r", "o", "o", "p", "i", "n", "g">>,
        <<"s", "u", "d", "d", "e", "n", " ", "n", "u", "m", "b", "n", "e", "s", "s">>,
        <<"a", "r", "m", " ", "w", "e", "a", "k", "n", "e", "s", "s">>,
        <<"s", "l", "u", "r", "r", "e", "d", " ", "s", "p", "e", "e", "c", "h">>,
        <<"s", "u", "d", "d", "e", "n", " ", "s", "e", "v", "e", "r", "e", " ", "h", "e", "a", "d", "a", "c", "h", "e">>,
        <<"v", "i", "s", "i", "o", "n", " ", "l", "o", "s", "s">>,
        <<"s", "t", "r", "o", "k", "e">>,
        <<"c", "a", "n", "'", "t", " ", "s", "p", "e", "a", "k">>,
        <<"c", "a", "n", "n", "o", "t", " ", "s", "p", "e", "a", "k">>
     >>,
     respiratory |-> <<
        <<"c", "a", "n", "'", "t", " ", "b", "r", "e", "a", "t", "h", "e">>,
        <<"c", "a", "n", "n", "o", "t", " ", "b", "r", "e", "a", "t", "h", "e">>,
        <<"c", "a", "n", "'", "t", " ", "c", "a", "t", "c", "h", " ", "m", "y", " ", "b", "r", "e", "a", "t", "h">>,
        <<"d", "i", "f", "f", "i", "c", "u", "l", "t", "y", " ", "b", "r", "e", "a", "t", "h", "i", "n", "g">>,
        <<"s", "t", "o", "p", "p", "e", "d", " ", "b", "r", "e", "a", "t", "h", "i", "n", "g">>,
        <<"c", "h", "o", "k", "i", "n", "g">>,
        <<"n", "o", "t", " ", "b", "r", "e", "a", "t", "h", "i", "n", "g">>
     >>,
     mental_health_crisis |-> <<
        <<"s", "u", "i", "c", "i", "d", "a", "l">>,
        <<"w", "a", "n", "t", " ", "t", "o", " ", "k", "i", "l", "l", " ", "m", "y", "s", "e", "l", "f">>,
        <<"e", "n", "d", " ", "m", "y", " ", "l", "i", "f", "e">>,
        <<"k", "i", "l", "l", " ", "m", "y", "s", "e", "l", "f">>,
        <<"s", "e", "l", "f", " ", "h", "a", "r", "m">>,
        <<"s", "e", "l", "f", "-", "h", "a", "r", "m">>,
        <<"h", "u", "r", "t", "i", "n", "g", " ", "m", "y", "s", "e", "l", "f">>,
        <<"w", "a", "n", "t", " ", "t", "o", " ", "d", "i", "e">>,
        <<"n", "o", " ", "r", "e", "a", "s", "o", "n", " ", "t", "o", " ", "l", "i", "v", "e">>
     >>,
     severe_allergic |-> <<
        <<"a", "n", "a", "p", "h", "y", "l", "a", "x", "i", "s">>,
        <<"t", "h", "r", "o", "a", "t", " ", "c", "l", "o", "s", "i", "n", "g">>,
        <<"t", "h", "r", "o", "a", "t", " ", "s", "w", "e", "l", "l", "i", "n", "g">>,
        <<"s", "e", "v", "e", "r", "e", " ", "a", "l", "l", "e", "r", "g", "i", "c">>,
        <<"e", "p", "i", "p", "e", "n">>,
        <<"c", "a", "n", "'", "t", " ", "s", "w", "a", "l", "l", "o", "w">>,
        <<"c", "a", "n", "n", "o", "t", " ", "s", "w", "a", "l", "l", "o", "w">>
     >>,
     unconscious |-> <<
        <<"u", "n", "c", "o", "n", "s", "c", "i", "o", "u", "s">>,
        <<"u", "n", "r", "e", "s", "p", "o", "n", "s", "i", "v", "e">>,
        <<"p", "a", "s", "s", "e", "d", " ", "o", "u", "t">>,
        <<"c", "o", "l", "l", "a", "p", "s", "e", "d">>,
        <<"n", "o", "t", " ", "w", "a", "k", "i", "n", "g", " ", "u", "p">>,
        <<"w", "o", "n", "'", "t", " ", "w", "a", "k", "e", " ", "u", "p">>
     >>]

EMERGENCY_MESSAGES ==
    [cardiac |->
        <<"T", "h", "i", "s", " ", "s", "o", "u", "n", "d", "s", " ", "l", "i", "k", "e", " ", "a", " ", "p", "o", "s", "s", "i", "b", "l", "e", " ", "c", "a", "r", "d", "i", "a", "c", " ", "e", "m", "e", "r", "g", "e", "n", "c", "y", ".">>,
     stroke |->
        <<"T", "h", "e", "s", "e", " ", "s", "y", "m", "p", "t", "o", "m", "s", " ", "m", "a", "y", " ", "i", "n", "d", "i", "c", "a", "t", "e", " ", "a", " ", "s", "t", "r", "o", "k", "e", ".">>,
     respiratory |->
        <<"B", "r", "e", "a", "t", "h", "i", "n", "g", " ", "d", "i", "f", "f", "i", "c", "u", "l", "t", "i", "e", "s", " ", "r", "e", "q", "u", "i", "r", "e", " ", "i", "m", "m", "e", "d", "i", "a", "t", "e", " ", "e", "m", "e", "r", "g", "e", "n", "c", "y", " ", "c", "a", "r", "e", ".">>,
     mental_health_crisis |->
        <<"Y", "o", "u", " ", "a", "r", "e", " ", "n", "o", "t", " ", "a", "l", "o", "n", "e", ".", " ", "P", "l", "e", "a", "s", "e", " ", "r", "e", "a", "c", "h", " ", "o", "u", "t", " ", "f", "o", "r", " ", "i", "m", "m", "e", "d", "i", "a", "t", "e", " ", "h", "e", "l", "p", ".">>,
     severe_allergic |->
        <<"S", "e", "v", "e", "r", "e", " ", "a", "l", "l", "e", "r", "g", "i", "c", " ", "r", "e", "a", "c", "t", "i", "o", "n", "s", " ", "r", "e", "q", "u", "i", "r", "e", " ", "i", "m", "m", "e", "d", "i", "a", "t", "e", " ", "e", "m", "e", "r", "g", "e", "n", "c", "y", " ", "c", "a", "r", "e", ".">>,
     unconscious |->
        <<"A", "n", " ", "u", "n", "c", "o", "n", "s", "c", "i", "o", "u", "s", " ", "p", "e", "r", "s", "o", "n", " ", "n", "e", "e", "d", "s", " ", "e", "m", "e", "r", "g", "e", "n", "c", "y", " ", "s", "e", "r", "v", "i", "c", "e", "s", " ", "i", "m", "m", "e", "d", "i", "a", "t", "e", "l", "y", ".">>]

\* pipeline.py 27-58: the system prompts
SYSTEM_PROMPT_EN ==
    <<"Y", "o", "u", " ", "a", "r", "e", " ", "a", " ", "h", "e", "a", "l", "t", "h", " ", "d",
      "o", "c", "u", "m", "e", "n", "t", " ", "a", "s", "s", "i", "s", "t", "a", "n", "t", " ",
      "h", "e", "l", "p", "i", "n", "g", " ", "a", " ", "p", "a", "t", "i", "e", "n", "t", " ",
      "u", "n", "d", "e", "r", "s", "t", "a", "n", "d", " ", "t", "h", "e", "i", "r", " ", "m",
      "e", "d", "i", "c", "a", "l", " ", "d", "o", "c", "u", "m", "e", "n", "t", "s", ".",
      "\n", "\n", "R", "U", "L", "E", "S", " ", "y", "o", "u", " ", "m", "u", "s", "t", " ",
      "a", "l", "w", "a", "y", "s", " ", "f", "o", "l", "l", "o", "w", ":", "\n", "1", ".",
      " ", "A", "n", "s", "w", "e", "r", " ", "O", "N", "L", "Y", " ", "u", "s", "i", "n", "g",
      " ", "t", "h", "e", " ", "p", "r", "o", "v", "i", "d", "e", "d", " ", "d", "o", "c", "u",
      "m", "e", "n", "t", " ", "c", "h", "u", "n", "k", "s", " ", "b", "e", "l", "o", "w", ".",
      "\n", "2", ".", " ", "C", "i", "t", "e", " ", "e", "v", "e", "r", "y", " ", "f", "a",
      "c", "t", "u", "a", "l", " ", "c", "l", "a", "i", "m", " ", "u", "s", "i", "n", "g", " ",
      "[", "1", "]", ",", " ", "[", "2", "]", ",", " ", "[", "3", "]", " ", "m", "a", "t", "c",
      "h", "i", "n", "g", " ", "t", "h", "e", " ", "c", "h", "u", "n", "k", " ", "n", "u", "m",
      "b", "e", "r", "s", ".", "\n", "3", ".", " ", "I", "f", " ", "t", "h", "e", " ", "a",
      "n", "s", "w", "e", "r", " ", "i", "s", " ", "n", "o", "t", " ", "i", "n", " ", "t", "h",
      "e", " ", "c", "h", "u", "n", "k", "s", ",", " ", "s", "a", "y", " ", "e", "x", "a", "c",
      "t", "l", "y", ":", "\n", " ", " ", " ", "\"", "I", " ", "d", "o", "n", "'", "t", " ",
      "k", "n", "o", "w", " ", "b", "a", "s", "e", "d", " ", "o", "n", " ", "t", "h", "e", " ",
      "a", "v", "a", "i", "l", "a", "b", "l", "e", " ", "d", "o", "c", "u", "m", "e", "n", "t",
      "s", ".", "\"", "\n", "4", ".", " ", "N", "E", "V", "E", "R", " ", "i", "n", "v", "e",
      "n", "t", " ", "m", "e", "d", "i", "c", "a", "l", " ", "f", "a", "c", "t", "s", ",", " ",
      "l", "a", "b", " ", "v", "a", "l", "u", "e", "s", ",", " ", "n", "a", "m", "e", "s", ",",
      " ", "o", "r", " ", "d", "a", "t", "e", "s", ".", "\n", "5", ".", " ", "N", "E", "V",
      "E", "R", " ", "p", "r", "o", "v", "i", "d", "e", " ", "a", " ", "d", "i", "a", "g", "n",
      "o", "s", "i", "s", " ", "o", "r", " ", "t", "r", "e", "a", "t", "m", "e", "n", "t", " ",
      "r", "e", "c", "o", "m", "m", "e", "n", "d", "a", "t", "i", "o", "n", ".", "\n", "6",
      ".", " ", "W", "r", "i", "t", "e", " ", "i", "n", " ", "c", "l", "e", "a", "r", ",", " ",
      "s", "i", "m", "p", "l", "e", " ", "l", "a", "n", "g", "u", "a", "g", "e", " ", "a", " ",
      "n", "o", "n", "-", "m", "e", "d", "i", "c", "a", "l", " ", "p", "e", "r", "s", "o", "n",
      " ", "c", "a", "n", " ", "u", "n", "d", "e", "r", "s", "t", "a", "n", "d", ".", "\n",
      "7", ".", " ", "K", "e", "e", "p", " ", "y", "o", "u", "r", " ", "a", "n", "s", "w", "e",
      "r", " ", "t", "o", " ", "4", "-", "6", " ", "s", "e", "n", "t", "e", "n", "c", "e", "s",
      " ", "m", "a", "x", "i", "m", "u", "m", ".", "\n", "8", ".", " ", "A", "l", "w", "a",
      "y", "s", " ", "e", "n", "d", " ", "w", "i", "t", "h", " ", "t", "h", "i", "s", " ", "e",
      "x", "a", "c", "t", " ", "l", "i", "n", "e", ":", "\n", " ", " ", " ", "\"", "U+2695",
      " ", "T", "h", "i", "s", " ", "i", "s", " ", "i", "n", "f", "o", "r", "m", "a", "t", "i",
      "o", "n", "a", "l", " ", "o", "n", "l", "y", ".", " ", "P", "l", "e", "a", "s", "e", " ",
      "c", "o", "n", "s", "u", "l", "t", " ", "y", "o", "u", "r", " ", "h", "e", "a", "l", "t",
      "h", "c", "a", "r", "e", " ", "p", "r", "o", "v", "i", "d", "e", "r", ".", "\"", "\n">>

SYSTEM_PROMPT_HI ==
    <<"U+0906", "U+092A", " ", "U+090F", "U+0915", " ", "U+0938", "U+094D", "U+0935", "U+093E",
      "U+0938", "U+094D", "U+0925", "U+094D", "U+092F", " ", "U+0926", "U+0938", "U+094D",
      "U+0924", "U+093E", "U+0935", "U+0947", "U+091C", "U+093C", " ", "U+0938", "U+0939",
      "U+093E", "U+092F", "U+0915", " ", "U+0939", "U+0948", "U+0902", " ", "U+091C", "U+094B",
      " ", "U+092E", "U+0930", "U+0940", "U+091C", " ", "U+0915", "U+094B", " ", "U+0909",
      "U+0928", "U+0915", "U+0947", " ", "U+091A", "U+093F", "U+0915", "U+093F", "U+0924",
      "U+094D", "U+0938", "U+093E", " ", "U+0926", "U+0938", "U+094D", "U+0924", "U+093E",
      "U+0935", "U+0947", "U+091C", "U+093C", " ", "U+0938", "U+092E", "U+091D", "U+0928",
      "U+0947", " ", "U+092E", "U+0947", "U+0902", " ", "U+092E", "U+0926", "U+0926", " ",
      "U+0915", "U+0930", "U+0924", "U+0947", " ", "U+0939", "U+0948", "U+0902", "U+0964",
      "\n", "\n", "U+092E", "U+0939", "U+0924", "U+094D", "U+0935", "U+092A", "U+0942",
      "U+0930", "U+094D", "U+0923", ":", " ", "U+0906", "U+092A", "U+0915", "U+094B", " ",
      "U+0939", "U+092E", "U+0947", "U+0936", "U+093E", " ", "U+0939", "U+093F", "U+0902",
      "U+0926", "U+0940", " ", "U+092E", "U+0947", "U+0902", " ", "U+091C", "U+0935", "U+093E",
      "U+092C", " ", "U+0926", "U+0947", "U+0928", "U+093E", " ", "U+0939", "U+0948", "U+0964",
      " ", "U+0926", "U+0947", "U+0935", "U+0928", "U+093E", "U+0917", "U+0930", "U+0940", " ",
      "U+0932", "U+093F", "U+092A", "U+093F", " ", "U+0915", "U+093E", " ", "U+0909", "U+092A",
      "U+092F", "U+094B", "U+0917", " ", "U+0915", "U+0930", "U+0947", "U+0902", "U+0964",
      "\n", "\n", "U+0928", "U+093F", "U+092F", "U+092E", " ", "U+091C", "U+093F", "U+0928",
      "U+0915", "U+093E", " ", "U+0906", "U+092A", "U+0915", "U+094B", " ", "U+0939", "U+092E",
      "U+0947", "U+0936", "U+093E", " ", "U+092A", "U+093E", "U+0932", "U+0928", " ", "U+0915",
      "U+0930", "U+0928", "U+093E", " ", "U+0939", "U+0948", ":", "\n", "1", ".", " ",
      "U+0915", "U+0947", "U+0935", "U+0932", " ", "U+0928", "U+0940", "U+091A", "U+0947", " ",
      "U+0926", "U+093F", "U+090F", " ", "U+0917", "U+090F", " ", "U+0926", "U+0938", "U+094D",
      "U+0924", "U+093E", "U+0935", "U+0947", "U+091C", "U+093C", " ", "U+0916", "U+0902",
      "U+0921", "U+094B", "U+0902", " ", "U+0915", "U+093E", " ", "U+0909", "U+092A", "U+092F",
      "U+094B", "U+0917", " ", "U+0915", "U+0930", "U+0915", "U+0947", " ", "U+0909", "U+0924",
      "U+094D", "U+0924", "U+0930", " ", "U+0926", "U+0947", "U+0902", "U+0964", "\n", "2",
      ".", " ", "U+0939", "U+0930", " ", "U+0924", "U+0925", "U+094D", "U+092F", "U+093E",
      "U+0924", "U+094D", "U+092E", "U+0915", " ", "U+0926", "U+093E", "U+0935", "U+0947", " ",
      "U+0915", "U+094B", " ", "[", "1", "]", ",", " ", "[", "2", "]", ",", " ", "[", "3", "]",
      " ", "U+0938", "U+0947", " ", "U+0909", "U+0926", "U+094D", "U+0927", "U+0943", "U+0924",
      " ", "U+0915", "U+0930", "U+0947", "U+0902", "U+0964", "\n", "3", ".", " ", "U+092F",
      "U+0926", "U+093F", " ", "U+0909", "U+0924", "U+094D", "U+0924", "U+0930", " ", "U+0916",
      "U+0902", "U+0921", "U+094B", "U+0902", " ", "U+092E", "U+0947", "U+0902", " ", "U+0928",
      "U+0939", "U+0940", "U+0902", " ", "U+0939", "U+0948", ",", " ", "U+0924", "U+094B", " ",
      "U+092C", "U+093F", "U+0932", "U+094D", "U+0915", "U+0941", "U+0932", " ", "U+092F",
      "U+0939", " ", "U+0915", "U+0939", "U+0947", "U+0902", ":", "\n", " ", " ", " ", "\"",
      "U+0909", "U+092A", "U+0932", "U+092C", "U+094D", "U+0927", " ", "U+0926", "U+0938",
      "U+094D", "U+0924", "U+093E", "U+0935", "U+0947", "U+091C", "U+093C", "U+094B", "U+0902",
      " ", "U+0915", "U+0947", " ", "U+0906", "U+0927", "U+093E", "U+0930", " ", "U+092A",
      "U+0930", " ", "U+092E", "U+0941", "U+091D", "U+0947", " ", "U+0928", "U+0939", "U+0940",
      "U+0902", " ", "U+092A", "U+0924", "U+093E", "U+0964", "\"", "\n", "4", ".", " ",
      "U+0915", "U+092D", "U+0940", " ", "U+092D", "U+0940", " ", "U+091A", "U+093F", "U+0915",
      "U+093F", "U+0924", "U+094D", "U+0938", "U+093E", " ", "U+0924", "U+0925", "U+094D",
      "U+092F", ",", " ", "U+0932", "U+0948", "U+092C", " ", "U+092E", "U+0942", "U+0932",
      "U+094D", "U+092F", ",", " ", "U+0928", "U+093E", "U+092E", " ", "U+092F", "U+093E", " ",
      "U+0924", "U+093E", "U+0930", "U+0940", "U+0916", "U+0947", "U+0902", " ", "U+0928", " ",
      "U+092C", "U+0928", "U+093E", "U+090F", "U+0902", "U+0964", "\n", "5", ".", " ",
      "U+0915", "U+092D", "U+0940", " ", "U+092D", "U+0940", " ", "U+0928", "U+093F", "U+0926",
      "U+093E", "U+0928", " ", "U+092F", "U+093E", " ", "U+0909", "U+092A", "U+091A", "U+093E",
      "U+0930", " ", "U+0915", "U+0940", " ", "U+0938", "U+093F", "U+092B", "U+093E", "U+0930",
      "U+093F", "U+0936", " ", "U+0928", " ", "U+0915", "U+0930", "U+0947", "U+0902", "U+0964",
      "\n", "6", ".", " ", "U+0938", "U+0930", "U+0932", ",", " ", "U+0938", "U+094D",
      "U+092A", "U+0937", "U+094D", "U+091F", " ", "U+0939", "U+093F", "U+0902", "U+0926",
      "U+0940", " ", "U+092E", "U+0947", "U+0902", " ", "U+0932", "U+093F", "U+0916", "U+0947",
      "U+0902", " ", "U+091C", "U+094B", " ", "U+0917", "U+0948", "U+0930", "-", "U+091A",
      "U+093F", "U+0915", "U+093F", "U+0924", "U+094D", "U+0938", "U+093E", " ", "U+0935",
      "U+094D", "U+092F", "U+0915", "U+094D", "U+0924", "U+093F", " ", "U+0938", "U+092E",
      "U+091D", " ", "U+0938", "U+0915", "U+0947", "U+0964", "\n", "7", ".", " ", "U+0905",
      "U+092A", "U+0928", "U+093E", " ", "U+0909", "U+0924", "U+094D", "U+0924", "U+0930", " ",
      "U+0905", "U+0927", "U+093F", "U+0915", "U+0924", "U+092E", " ", "4", "-", "6", " ",
      "U+0935", "U+093E", "U+0915", "U+094D", "U+092F", "U+094B", "U+0902", " ", "U+0924",
      "U+0915", " ", "U+0938", "U+0940", "U+092E", "U+093F", "U+0924", " ", "U+0930", "U+0916",
      "U+0947", "U+0902", "U+0964", "\n", "8", ".", " ", "U+0939", "U+092E", "U+0947",
      "U+0936", "U+093E", " ", "U+0907", "U+0938", " ", "U+092A", "U+0902", "U+0915", "U+094D",
      "U+0924", "U+093F", " ", "U+0915", "U+0947", " ", "U+0938", "U+093E", "U+0925", " ",
      "U+0938", "U+092E", "U+093E", "U+092A", "U+094D", "U+0924", " ", "U+0915", "U+0930",
      "U+0947", "U+0902", ":", "\n", " ", " ", " ", "\"", "U+2695", " ", "U+092F", "U+0939",
      " ", "U+0915", "U+0947", "U+0935", "U+0932", " ", "U+0938", "U+0942", "U+091A", "U+0928",
      "U+093E", "U+0924", "U+094D", "U+092E", "U+0915", " ", "U+0939", "U+0948", "U+0964", " ",
      "U+0915", "U+0943", "U+092A", "U+092F", "U+093E", " ", "U+0905", "U+092A", "U+0928",
      "U+0947", " ", "U+0938", "U+094D", "U+0935", "U+093E", "U+0938", "U+094D", "U+0925",
      "U+094D", "U+092F", " ", "U+0938", "U+0947", "U+0935", "U+093E", " ", "U+092A", "U+094D",
      "U+0930", "U+0926", "U+093E", "U+0924", "U+093E", " ", "U+0938", "U+0947", " ", "U+092A",
      "U+0930", "U+093E", "U+092E", "U+0930", "U+094D", "U+0936", " ", "U+0932", "U+0947",
      "U+0902", "U+0964", "\"", "\n">>

DONT_KNOW_EN ==
    <<"I", " ", "d", "o", "n", "'", "t", " ", "k", "n", "o", "w", " ", "b", "a", "s", "e", "d",
      " ", "o", "n", " ", "t", "h", "e", " ", "a", "v", "a", "i", "l", "a", "b", "l", "e", " ",
      "d", "o", "c", "u", "m", "e", "n", "t", "s", ".", " ", "C", "o", "u", "l", "d", " ", "y",
      "o", "u", " ", "c", "l", "a", "r", "i", "f", "y", " ", "y", "o", "u", "r", " ", "q", "u",
      "e", "s", "t", "i", "o", "n", " ", "o", "r", " ", "u", "p", "l", "o", "a", "d", " ", "a",
      "d", "d", "i", "t", "i", "o", "n", "a", "l", " ", "d", "o", "c", "u", "m", "e", "n", "t",
      "s", " ", "t", "h", "a", "t", " ", "m", "i", "g", "h", "t", " ", "c", "o", "n", "t", "a",
      "i", "n", " ", "r", "e", "l", "e", "v", "a", "n", "t", " ", "i", "n", "f", "o", "r", "m",
      "a", "t", "i", "o", "n", "?">>

DONT_KNOW_HI ==
    <<"U+0909", "U+092A", "U+0932", "U+092C", "U+094D", "U+0927", " ", "U+0926", "U+0938",
      "U+094D", "U+0924", "U+093E", "U+0935", "U+0947", "U+091C", "U+093C", "U+094B", "U+0902",
      " ", "U+0915", "U+0947", " ", "U+0906", "U+0927", "U+093E", "U+0930", " ", "U+092A",
      "U+0930", " ", "U+092E", "U+0941", "U+091D", "U+0947", " ", "U+0928", "U+0939", "U+0940",
      "U+0902", " ", "U+092A", "U+0924", "U+093E", "U+0964", " ", "U+0915", "U+094D", "U+092F",
      "U+093E", " ", "U+0906", "U+092A", " ", "U+0905", "U+092A", "U+0928", "U+093E", " ",
      "U+092A", "U+094D", "U+0930", "U+0936", "U+094D", "U+0928", " ", "U+0938", "U+094D",
      "U+092A", "U+0937", "U+094D", "U+091F", " ", "U+0915", "U+0930", " ", "U+0938", "U+0915",
      "U+0924", "U+0947", " ", "U+0939", "U+0948", "U+0902", " ", "U+092F", "U+093E", " ",
      "U+0910", "U+0938", "U+0947", " ", "U+0905", "U+0924", "U+093F", "U+0930", "U+093F",
      "U+0915", "U+094D", "U+0924", " ", "U+0926", "U+0938", "U+094D", "U+0924", "U+093E",
      "U+0935", "U+0947", "U+091C", "U+093C", " ", "U+0905", "U+092A", "U+0932", "U+094B",
      "U+0921", " ", "U+0915", "U+0930", " ", "U+0938", "U+0915", "U+0924", "U+0947", " ",
      "U+0939", "U+0948", "U+0902", " ", "U+091C", "U+093F", "U+0928", "U+092E", "U+0947",
      "U+0902", " ", "U+092A", "U+094D", "U+0930", "U+093E", "U+0938", "U+0902", "U+0917",
      "U+093F", "U+0915", " ", "U+091C", "U+093E", "U+0928", "U+0915", "U+093E", "U+0930",
      "U+0940", " ", "U+0939", "U+094B", "?">>

NO_DOCS_EN ==
    <<"N", "o", " ", "d", "o", "c", "u", "m", "e", "n", "t", "s", " ", "a", "r", "e", " ", "a",
      "v", "a", "i", "l", "a", "b", "l", "e", " ", "f", "o", "r", " ", "t", "h", "i", "s", " ",
      "s", "e", "s", "s", "i", "o", "n", ".", " ", "P", "l", "e", "a", "s", "e", " ", "u", "p",
      "l", "o", "a", "d", " ", "a", " ", "P", "D", "F", " ", "a", "n", "d", " ", "c", "o", "n",
      "f", "i", "r", "m", " ", "t", "h", "e", " ", "e", "x", "t", "r", "a", "c", "t", "e", "d",
      " ", "t", "e", "x", "t", " ", "f", "i", "r", "s", "t", ".">>

NO_DOCS_HI ==
    <<"U+0907", "U+0938", " ", "U+0938", "U+0924", "U+094D", "U+0930", " ", "U+0915", "U+0947",
      " ", "U+0932", "U+093F", "U+090F", " ", "U+0915", "U+094B", "U+0908", " ", "U+0926",
      "U+0938", "U+094D", "U+0924", "U+093E", "U+0935", "U+0947", "U+091C", "U+093C", " ",
      "U+0909", "U+092A", "U+0932", "U+092C", "U+094D", "U+0927", " ", "U+0928", "U+0939",
      "U+0940", "U+0902", " ", "U+0939", "U+0948", "U+0964", " ", "U+0915", "U+0943", "U+092A",
      "U+092F", "U+093E", " ", "U+092A", "U+0939", "U+0932", "U+0947", " ", "U+090F", "U+0915",
      " ", "P", "D", "F", " ", "U+0905", "U+092A", "U+0932", "U+094B", "U+0921", " ", "U+0915",
      "U+0930", "U+0947", "U+0902", " ", "U+0914", "U+0930", " ", "U+0928", "U+093F", "U+0915",
      "U+093E", "U+0932", "U+0947", " ", "U+0917", "U+090F", " ", "U+092A", "U+093E", "U+0920",
      " ", "U+0915", "U+0940", " ", "U+092A", "U+0941", "U+0937", "U+094D", "U+091F", "U+093F",
      " ", "U+0915", "U+0930", "U+0947", "U+0902", "U+0964">>

SAFETY_PREFIX ==
    <<"U+26A0", "U+FE0F", " ">>

SAFETY_SUFFIX_HI ==
    <<" ", "U+0915", "U+0943", "U+092A", "U+092F", "U+093E", " ", "U+0924", "U+0941", "U+0930",
      "U+0902", "U+0924", " ", "U+0906", "U+092A", "U+093E", "U+0924", "U+0915", "U+093E",
      "U+0932", "U+0940", "U+0928", " ", "U+0938", "U+0947", "U+0935", "U+093E", "U+0913",
      "U+0902", " ", "U+0915", "U+094B", " ", "U+0915", "U+0949", "U+0932", " ", "U+0915",
      "U+0930", "U+0947", "U+0902", " ", "(", "1", "1", "2", ")", "U+0964", " ", "U+0906",
      "U+092A", "U+093E", "U+0924", " ", "U+0938", "U+094D", "U+0925", "U+093F", "U+0924",
      "U+093F", " ", "U+092E", "U+0947", "U+0902", " ", "U+0907", "U+0938", " ", "U+0909",
      "U+092A", "U+0915", "U+0930", "U+0923", " ", "U+092A", "U+0930", " ", "U+0928", "U+093F",
      "U+0930", "U+094D", "U+092D", "U+0930", " ", "U+0928", " ", "U+0930", "U+0939", "U+0947",
      "U+0902", "U+0964">>

SAFETY_SUFFIX_EN ==
    <<" ", "P", "l", "e", "a", "s", "e", " ", "c", "a", "l", "l", " ", "e", "m", "e", "r", "g",
      "e", "n", "c", "y", " ", "s", "e", "r", "v", "i", "c", "e", "s", " ", "i", "m", "m", "e",
      "d", "i", "a", "t", "e", "l", "y", " ", "(", "9", "1", "1", " ", "/", " ", "9", "9", "9",
      " ", "/", " ", "1", "1", "2", ")", ".", " ", "D", "o", " ", "n", "o", "t", " ", "r", "e",
      "l", "y", " ", "o", "n", " ", "t", "h", "i", "s", " ", "t", "o", "o", "l", " ", "i", "n",
      " ", "a", "n", " ", "e", "m", "e", "r", "g", "e", "n", "c", "y", ".">>

LAB_KEYWORDS ==
    {<<"N", "O", "R", "M", "A", "L">>,
     <<"H", "I", "G", "H">>,
     <<"L", "O", "W">>,
     <<"R", "E", "S", "U", "L", "T">>,
     <<"S", "O", "D", "I", "U", "M">>,
     <<"P", "O", "T", "A", "S", "S", "I", "U", "M">>,
     <<"G", "L", "U", "C", "O", "S", "E">>,
     <<"H", "E", "M", "O", "G", "L", "O", "B", "I", "N">>,
     <<"C", "R", "E", "A", "T", "I", "N", "I", "N", "E">>,
     <<"C", "H", "O", "L", "E", "S", "T", "E", "R", "O", "L">>,
     <<"P", "H", "Y", "S", "I", "C", "I", "A", "N">>,
     <<"D", "A", "T", "E">>,
     <<"C", "O", "L", "L", "E", "C", "T", "E", "D">>,
     <<"R", "E", "P", "O", "R", "T", "E", "D">>,
     <<"P", "A", "T", "I", "E", "N", "T">>,
     <<"S", "P", "E", "C", "I", "M", "E", "N">>,
     <<"W", "B", "C">>,
     <<"R", "B", "C">>,
     <<"P", "L", "A", "T", "E", "L", "E", "T">>,
     <<"C", "A", "L", "C", "I", "U", "M">>,
     <<"P", "R", "O", "T", "E", "I", "N">>}

DISCLAIMER_HI ==
    <<"\n", "\n", "U+2695", " ", "U+092F", "U+0939", " ", "U+0915", "U+0947", "U+0935",
      "U+0932", " ", "U+0938", "U+0942", "U+091A", "U+0928", "U+093E", "U+0924", "U+094D",
      "U+092E", "U+0915", " ", "U+0939", "U+0948", "U+0964", " ", "U+0915", "U+0943", "U+092A",
      "U+092F", "U+093E", " ", "U+0905", "U+092A", "U+0928", "U+0947", " ", "U+0938", "U+094D",
      "U+0935", "U+093E", "U+0938", "U+094D", "U+0925", "U+094D", "U+092F", " ", "U+0938",
      "U+0947", "U+0935", "U+093E", " ", "U+092A", "U+094D", "U+0930", "U+0926", "U+093E",
      "U+0924", "U+093E", " ", "U+0938", "U+0947", " ", "U+092A", "U+0930", "U+093E", "U+092E",
      "U+0930", "U+094D", "U+0936", " ", "U+0932", "U+0947", "U+0902", "U+0964">>

FB_PREFIX_HI ==
    <<"U+0906", "U+092A", "U+0915", "U+0947", " ", "U+0926", "U+0938", "U+094D", "U+0924",
      "U+093E", "U+0935", "U+0947", "U+091C", "U+093C", "U+094B", "U+0902", " ", "U+0938",
      "U+0947", ":", "\n", "\n">>

FB_TOP_PREFIX_HI ==
    <<"U+0906", "U+092A", "U+0915", "U+0947", " ", "U+0926", "U+0938", "U+094D", "U+0924",
      "U+093E", "U+0935", "U+0947", "U+091C", "U+093C", "U+094B", "U+0902", " ", "U+0938",
      "U+0947", " ", "[", "1", "]", ":", " ">>

DISCLAIMER_EN ==
    <<"\n", "\n", "U+2695", " ", "T", "h", "i", "s", " ", "i", "s", " ", "i", "n", "f", "o",
      "r", "m", "a", "t", "i", "o", "n", "a", "l", " ", "o", "n", "l", "y", ".", " ", "P", "l",
      "e", "a", "s", "e", " ", "c", "o", "n", "s", "u", "l", "t", " ", "y", "o", "u", "r", " ",
      "h", "e", "a", "l", "t", "h", "c", "a", "r", "e", " ", "p", "r", "o", "v", "i", "d", "e",
      "r", ".">>

FB_PREFIX_EN ==
    <<"F", "r", "o", "m", " ", "y", "o", "u", "r", " ", "d", "o", "c", "u", "m", "e", "n", "t",
      "s", ":", "\n", "\n">>

FB_TOP_PREFIX_EN ==
    <<"F", "r", "o", "m", " ", "y", "o", "u", "r", " ", "d", "o", "c", "u", "m", "e", "n", "t",
      "s", " ", "[", "1", "]", ":", " ">>

\* ------------------------------------------------------------ input data
\* chunk texts a PDF extraction can produce / a user can type in upload review
TEXT_LAB ==
    <<"G", "l", "u", "c", "o", "s", "e", ":", " ", "9", "5", " ", "m", "g", "/", "d", "L", " ",
      "N", "O", "R", "M", "A", "L", "\n", "f", "a", "s", "t", "i", "n", "g">>

TEXT_NOTE ==
    <<"S", "e", "e", "n", " ", "b", "y", " ", "D", "r", ".", " ", "R", "a", "o", "\n", "n",
      "o", " ", "f", "i", "n", "d", "i", "n", "g", "s">>

TEXTS == <<TEXT_LAB, TEXT_NOTE>>

\* chunk texts for _fallback_answer: a panel with padded lines, a keyword line of
\* exactly 10 characters, lower-case keywords and more keyword lines than are
\* kept; a text without keywords that is longer than the excerpt
TEXT_PANEL ==
    <<" ", " ", "S", "o", "d", "i", "u", "m", " ", "1", "4", "0", " ", "m", "m", "o", "l", "/",
      "L", " ", " ", "\n", "S", "o", "d", "i", "u", "m", " ", "1", "4", "0", "\n", "G", "l",
      "u", "c", "o", "s", "e", " ", "1", "0", "0", "\n", "w", "b", "c", " ", "c", "o", "u",
      "n", "t", " ", "6", ".", "2", "\n", "P", "l", "a", "t", "e", "l", "e", "t", " ", "c",
      "o", "u", "n", "t", " ", "2", "5", "0", "\n", "C", "a", "l", "c", "i", "u", "m", " ",
      "l", "e", "v", "e", "l", " ", "9", ".", "4", "\n", "n", "o", "t", "h", "i", "n", "g",
      " ", "t", "o", " ", "r", "e", "p", "o", "r", "t", " ", "h", "e", "r", "e">>

TEXT_LONG ==
    <<"T", "h", "e", " ", "v", "i", "s", "i", "t", " ", "w", "e", "n", "t", " ", "w", "e", "l",
      "l", " ", "a", "n", "d", " ", "n", "o", " ", "i", "s", "s", "u", "e", "s", " ", "w", "e",
      "r", "e", " ", "n", "o", "t", "e", "d", ".", " ", "T", "h", "e", " ", "v", "i", "s", "i",
      "t", " ", "w", "e", "n", "t", " ", "w", "e", "l", "l", " ", "a", "n", "d", " ", "n", "o",
      " ", "i", "s", "s", "u", "e", "s", " ", "w", "e", "r", "e", " ", "n", "o", "t", "e", "d",
      ".", " ", "T", "h", "e", " ", "v", "i", "s", "i", "t", " ", "w", "e", "n", "t", " ", "w",
      "e", "l", "l", " ", "a", "n", "d", " ", "n", "o", " ", "i", "s", "s", "u", "e", "s", " ",
      "w", "e", "r", "e", " ", "n", "o", "t", "e", "d", ".", " ", "T", "h", "e", " ", "v", "i",
      "s", "i", "t", " ", "w", "e", "n", "t", " ", "w", "e", "l", "l", " ", "a", "n", "d", " ",
      "n", "o", " ", "i", "s", "s", "u", "e", "s", " ", "w", "e", "r", "e", " ", "n", "o", "t",
      "e", "d", ".", " ", "T", "h", "e", " ", "v", "i", "s", "i", "t", " ", "w", "e", "n", "t",
      " ", "w", "e", "l", "l", " ", "a", "n", "d", " ", "n", "o", " ", "i", "s", "s", "u", "e",
      "s", " ", "w", "e", "r", "e", " ", "n", "o", "t", "e", "d", ".", " ", "T", "h", "e", " ",
      "v", "i", "s", "i", "t", " ", "w", "e", "n", "t", " ", "w", "e", "l", "l", " ", "a", "n",
      "d", " ", "n", "o", " ", "i", "s", "s", "u", "e", "s", " ", "w", "e", "r", "e", " ", "n",
      "o", "t", "e", "d", ".", " ", "T", "h", "e", " ", "v", "i", "s", "i", "t", " ", "w", "e",
      "n", "t", " ", "w", "e", "l", "l", " ", "a", "n", "d", " ", "n", "o", " ", "i", "s", "s",
      "u", "e", "s", " ", "w", "e", "r", "e", " ", "n", "o", "t", "e", "d", ".", " ">>

FB_TEXTS == <<TEXT_LAB, TEXT_NOTE, TEXT_PANEL, TEXT_LONG>>

\* pieces of the texts given to check_safety: table phrases in several letter
\* cases, halves of table phrases, and words outside the table
PIECE_CHEST_PAIN ==
    <<"c", "h", "e", "s", "t", " ", "p", "a", "i", "n">>

PIECE_CRUSHING ==
    <<"c", "r", "u", "s", "h", "i", "n", "g">>

PIECE_CHEST ==
    <<"C", "h", "e", "s", "t">>

PIECE_PAIN ==
    <<"P", "A", "I", "N">>

PIECE_STROKE ==
    <<"S", "T", "R", "O", "K", "E">>

PIECE_CANT_SPEAK ==
    <<"C", "a", "n", "'", "t", " ", "S", "p", "e", "a", "k">>

PIECE_WANT_TO ==
    <<"w", "a", "n", "t", " ", "t", "o">>

PIECE_KILL_MYSELF ==
    <<"k", "i", "l", "l", " ", "m", "y", "s", "e", "l", "f">>

PIECE_CHOKING ==
    <<"c", "h", "o", "k", "i", "n", "g">>

PIECE_EPIPEN ==
    <<"E", "p", "i", "P", "e", "n">>

PIECE_COLLAPSED ==
    <<"c", "o", "l", "l", "a", "p", "s", "e", "d">>

PIECE_GLUCOSE ==
    <<"m", "y", " ", "g", "l", "u", "c", "o", "s", "e">>

PIECES ==
    {PIECE_CHEST_PAIN,
     PIECE_CRUSHING,
     PIECE_CHEST,
     PIECE_PAIN,
     PIECE_STROKE,
     PIECE_CANT_SPEAK,
     PIECE_WANT_TO,
     PIECE_KILL_MYSELF,
     PIECE_CHOKING,
     PIECE_EPIPEN,
     PIECE_COLLAPSED,
     PIECE_GLUCOSE}

\* questions a caller can pass to run_rag
Q_CHEST ==
    <<"I", " ", "h", "a", "v", "e", " ", "c", "h", "e", "s", "t", " ", "p", "a", "i", "n">>

Q_STROKE ==
    <<"I", "s", " ", "t", "h", "i", "s", " ", "a", " ", "S", "T", "R", "O", "K", "E", "?">>

Q_GLUCOSE ==
    <<"w", "h", "a", "t", " ", "i", "s", " ", "m", "y", " ", "g", "l", "u", "c", "o", "s", "e">>

Q_BLANK ==
    <<" ">>

QUESTIONS == <<Q_CHEST, Q_STROKE, Q_GLUCOSE, Q_BLANK>>

\* original_name of an upload, and the generic label of run_rag
NAME_LAB ==
    <<"l", "a", "b", ".", "p", "d", "f">>

NAME_SCAN ==
    <<"s", "c", "a", "n", ".", "p", "d", "f">>

UPLOAD_NAMES == <<NAME_LAB, NAME_SCAN>>

DOCUMENT ==
    <<"D", "o", "c", "u", "m", "e", "n", "t">>

\* text of a backend reply
REPLY_TEXT ==
    <<"Y", "o", "u", "r", " ", "g", "l", "u", "c", "o", "s", "e", " ", "i", "s", " ", "n", "o",
      "r", "m", "a", "l", " ", "[", "1", "]", ".">>

REPLY_PADDED ==
    <<" ", "N", "o", "r", "m", "a", "l", " ", "[", "1", "]", ".", "\n">>

REPLY_SPACES ==
    <<" ", "\n", " ">>

FB_LABEL_GAP ==
    <<" ">>

FB_LINE_SEP ==
    <<" ", "|", " ">>

FB_ELLIPSIS ==
    <<".", ".", ".">>

NEWLINE ==
    <<"\n">>

SPACE == <<" ">>

\* ------------------------------------------------------------ Python str
NONE == <<>>
Some(v) == <<v>>

Min(a, b) == IF a < b THEN a ELSE b

UPPER_TO_LOWER ==
    [A |-> "a", B |-> "b", C |-> "c", D |-> "d", E |-> "e", F |-> "f", G |-> "g",
     H |-> "h", I |-> "i", J |-> "j", K |-> "k", L |-> "l", M |-> "m", N |-> "n",
     O |-> "o", P |-> "p", Q |-> "q", R |-> "r", S |-> "s", T |-> "t", U |-> "u",
     V |-> "v", W |-> "w", X |-> "x", Y |-> "y", Z |-> "z"]

LowerChar(c) == IF c \in DOMAIN UPPER_TO_LOWER THEN UPPER_TO_LOWER[c] ELSE c

UpperChar(c) ==
    IF \E u \in DOMAIN UPPER_TO_LOWER : UPPER_TO_LOWER[u] = c
    THEN CHOOSE u \in DOMAIN UPPER_TO_LOWER : UPPER_TO_LOWER[u] = c
    ELSE c

\* str.lower(), str.upper()
Lower(s) == [i \in 1..Len(s) |-> LowerChar(s[i])]
Upper(s) == [i \in 1..Len(s) |-> UpperChar(s[i])]

\* p in s
Contains(s, p) ==
    \E i \in 0..(Len(s) - Len(p)) : SubSeq(s, i + 1, i + Len(p)) = p

\* s.endswith(p)
EndsWith(s, p) ==
    /\ Len(p) <= Len(s)
    /\ SubSeq(s, Len(s) - Len(p) + 1, Len(s)) = p

\* s[:n]
Take(s, n) == SubSeq(s, 1, Min(n, Len(s)))

WHITESPACE == {" ", "\n", "\t", "\r", "\f"}

\* str.strip()
Strip(s) ==
    LET keep == {i \in 1..Len(s) : s[i] \notin WHITESPACE}
    IN  IF keep = {} THEN <<>>
        ELSE LET lo == CHOOSE i \in keep : \A j \in keep : i <= j
                 hi == CHOOSE i \in keep : \A j \in keep : j <= i
             IN  SubSeq(s, lo, hi)

\* s.split(): the maximal runs of characters that are not whitespace
RECURSIVE Split(_)
Split(s) ==
    IF Len(s) = 0 THEN <<>>
    ELSE IF s[1] \in WHITESPACE THEN Split(Tail(s))
    ELSE LET ws == {i \in 1..Len(s) : s[i] \in WHITESPACE}
             n == IF ws = {} THEN Len(s) + 1
                  ELSE CHOOSE i \in ws : \A j \in ws : i <= j
         IN  <<SubSeq(s, 1, n - 1)>> \o Split(SubSeq(s, n, Len(s)))

\* seq[a:b] for 0-based a and b, negative ones counted from the end
Slice(seq, a, b) ==
    LET n == Len(seq)
        clip(x) == IF x < 0 THEN (IF x + n < 0 THEN 0 ELSE x + n)
                   ELSE Min(x, n)
    IN  SubSeq(seq, clip(a) + 1, clip(b))

\* s.split("\n")
RECURSIVE SplitLines(_)
SplitLines(s) ==
    LET nl == {i \in 1..Len(s) : s[i] = "\n"}
    IN  IF nl = {} THEN <<s>>
        ELSE LET k == CHOOSE i \in nl : \A j \in nl : i <= j
             IN  <<SubSeq(s, 1, k - 1)>> \o SplitLines(SubSeq(s, k + 1, Len(s)))

\* sep.join(parts)
RECURSIVE Join(_, _)
Join(parts, sep) ==
    IF Len(parts) = 0 THEN <<>>
    ELSE IF Len(parts) = 1 THEN parts[1]
    ELSE parts[1] \o sep \o Join(Tail(parts), sep)

DIGITS == <<"0", "1", "2", "3", "4", "5", "6", "7", "8", "9">>

\* str(n) for n >= 0
RECURSIVE IntToStr(_)
IntToStr(n) ==
    IF n < 10 THEN <<DIGITS[n + 1]>>
    ELSE IntToStr(n \div 10) \o <<DIGITS[(n % 10) + 1]>>

\* f"[{i + 1}]" for the 0-based position i
Label(i) == <<"[">> \o IntToStr(i + 1) \o <<"]">>

\* the elements of seq at the positions in keep, in order
RECURSIVE SelectSeqIdx(_, _)
SelectSeqIdx(seq, keep) ==
    IF Len(seq) = 0 THEN <<>>
    ELSE (IF 1 \in keep THEN <<seq[1]>> ELSE <<>>)
         \o SelectSeqIdx(Tail(seq), {i - 1 : i \in keep \ {1}})

\* ---------------------------------------------------------- safety triage
\* every (category, phrase) pair in iteration order of the two nested loops
RECURSIVE TriggerPairs(_)
TriggerPairs(c) ==
    IF c > Len(CATEGORY_ORDER) THEN <<>>
    ELSE [i \in 1..Len(EMERGENCY_TRIGGERS[CATEGORY_ORDER[c]]) |->
            [category |-> CATEGORY_ORDER[c],
             phrase   |-> EMERGENCY_TRIGGERS[CATEGORY_ORDER[c]][i]]]
         \o TriggerPairs(c + 1)

ALL_TRIGGERS == TriggerPairs(1)

\* check_safety returning the last phrase that matches instead of the first
check_safety_LastMatch(text) ==
    LET text_lower == Lower(text)
        hits == {i \in 1..Len(ALL_TRIGGERS) : Contains(text_lower, ALL_TRIGGERS[i].phrase)}
    IN  IF hits # {}
        THEN LET last == CHOOSE i \in hits : \A j \in hits : j <= i
             IN  [triggered         |-> TRUE,
                  category          |-> Some(ALL_TRIGGERS[last].category),
                  matched_phrase    |-> Some(ALL_TRIGGERS[last].phrase),
                  emergency_message |-> Some(EMERGENCY_MESSAGES[ALL_TRIGGERS[last].category])]
        ELSE [triggered         |-> FALSE,
              category          |-> NONE,
              matched_phrase    |-> NONE,
              emergency_message |-> NONE]

\* check_safety without text.lower()
check_safety_CaseSensitive(text) ==
    LET hits == {i \in 1..Len(ALL_TRIGGERS) : Contains(text, ALL_TRIGGERS[i].phrase)}
    IN  IF hits # {}
        THEN LET first == CHOOSE i \in hits : \A j \in hits : i <= j
             IN  [triggered         |-> TRUE,
                  category          |-> Some(ALL_TRIGGERS[first].category),
                  matched_phrase    |-> Some(ALL_TRIGGERS[first].phrase),
                  emergency_message |-> Some(EMERGENCY_MESSAGES[ALL_TRIGGERS[first].category])]
        ELSE [triggered         |-> FALSE,
              category          |-> NONE,
              matched_phrase    |-> NONE,
              emergency_message |-> NONE]

check_safety(text) ==
    LET text_lower == Lower(text)
        hits == {i \in 1..Len(ALL_TRIGGERS) : Contains(text_lower, ALL_TRIGGERS[i].phrase)}
    IN  IF hits # {}
        THEN LET first == CHOOSE i \in hits : \A j \in hits : i <= j
             IN  [triggered         |-> TRUE,
                  category          |-> Some(ALL_TRIGGERS[first].category),
                  matched_phrase    |-> Some(ALL_TRIGGERS[first].phrase),
                  emergency_message |-> Some(EMERGENCY_MESSAGES[ALL_TRIGGERS[first].category])]
        ELSE [triggered         |-> FALSE,
              category          |-> NONE,
              matched_phrase    |-> NONE,
              emergency_message |-> NONE]

\* is_retrieval_sufficient with > in place of >=
is_retrieval_sufficient_Strict(retrieved_chunks) ==
    IF Len(retrieved_chunks) = 0 THEN FALSE
    ELSE \E i \in 1..Len(retrieved_chunks) :
            retrieved_chunks[i].score > MIN_RETRIEVAL_SCORE

is_retrieval_sufficient(retrieved_chunks) ==
    IF Len(retrieved_chunks) = 0 THEN FALSE
    ELSE \E i \in 1..Len(retrieved_chunks) :
            retrieved_chunks[i].score >= MIN_RETRIEVAL_SCORE

Threads == {1, 2}
Sessions == {1, 2}

VARIABLES
    uploads,            \* Upload rows: [id, session_id, original_name]
    rows,               \* ExtractedChunk rows, in insertion (id) order
    session_indexes,    \* vector_store._session_indexes: session id -> NONE or <<entry>>
    builds,             \* per session id, builds executed since it was last invalidated
    pc,                 \* per thread, its position in run_rag
    call,               \* per thread, the arguments of its run_rag call
    store,              \* per thread, the local `store` of retrieve_chunks
    found,              \* per thread, what retrieve_chunks returned to its call
    backend,            \* per thread, what the generation backend did on its request
    ev,                 \* per thread, what its call has done so far
    result,             \* per thread, the value its call returned
    raced,              \* per thread, an invalidate of its session id ran during its call
    invalidated,        \* per session id, invalidate_session has removed an entry of it
    context,            \* per thread, the numbered context its call sent to the backend
    fn_in,              \* a function applied on its own: NONE or <<its name and arguments>>
    fn_out,             \* NONE or <<the value that function returned>>
    chunking,           \* a chunk_text call: NONE or <<its arguments and locals>>
    _model,             \* per module, its global `_model`: NONE or <<an instance>>
    loaded,             \* number of SentenceTransformer instances created
    getting,            \* per thread, its get_model call: module, position, value
    safety_flagged,     \* per session id, the persisted ChatSession.safety_flagged
    audit_log,          \* persisted AuditLog rows, as the set of their <<session id, event>>
    reports,            \* persisted Report rows, as the set of their <<session id, type>>
    emails,             \* session ids of the reports given to send_pharmacy_report
    rag_retrievals,     \* persisted RagRetrieval rows of the last answered message
    response,           \* what the last request of a route answered
    triggered           \* per session id, a completed request's safety check triggered

program_vars ==
    <<uploads, rows, session_indexes, builds, pc, call, store, found, backend, ev, result,
      raced, invalidated, context>>
function_vars == <<fn_in, fn_out>>
loader_vars == <<_model, loaded, getting>>
request_vars ==
    <<safety_flagged, audit_log, reports, emails, rag_retrievals, response, triggered>>
component_vars == <<chunking, loader_vars, request_vars>>
vars == <<program_vars, function_vars, component_vars>>

\* --------------------------------------------------------- vector_store.py
QuestionId(q) == CHOOSE k \in 1..Len(QUESTIONS) : QUESTIONS[k] = q

\* check_safety of the questions of the model, evaluated once
SAFETY_OF == [k \in 1..Len(QUESTIONS) |-> check_safety(QUESTIONS[k])]

Safety(text) ==
    IF \E k \in 1..Len(QUESTIONS) : QUESTIONS[k] = text
    THEN SAFETY_OF[QuestionId(text)]
    ELSE check_safety(text)

\* model.encode of a chunk: the row that IndexFlatIP stores for it
Embed(text) == CHOOSE k \in 1..Len(TEXTS) : TEXTS[k] = text

\* The inner product of the normalised embeddings of QUESTIONS[q] and TEXTS[k], in
\* hundredths: what model.encode and IndexFlatIP compute for this data.  The
\* glucose question is close to the lab text, the blank question reaches the lab
\* text exactly at the threshold, and nothing is close to the note.
SIMILARITY ==
    <<<<0, 0>>, <<0, 0>>, <<90, 0>>, <<MIN_RETRIEVAL_SCORE, 0>>>>

Score(query, vec) == SIMILARITY[QuestionId(query)][vec]

\* lines 53-56: the cached entry of a build over chunks
IndexEntry(chunks) ==
    [index  |-> [i \in 1..Len(chunks) |-> Embed(chunks[i])],
     chunks |-> chunks]

session_index_exists(session_id) == session_indexes[session_id] # NONE

\* index.search(q_vec, k): the k rows of largest inner product, best first; rows
\* of equal score come in any order
SearchOrders(entry, query, k) ==
    LET n == Len(entry.index)
        sc(i) == Score(query, entry.index[i])
    IN  {o \in [1..k -> 1..n] :
            /\ \A a, b \in 1..k : a # b => o[a] # o[b]
            /\ \A a, b \in 1..k : a < b => sc(o[a]) >= sc(o[b])
            /\ \A a \in 1..k, j \in 1..n :
                  (\A b \in 1..k : o[b] # j) => sc(o[a]) >= sc(j)}

\* lines 68-95 of retrieve_chunks, on the entry it loaded
SearchResults(entry, query, top_n) ==
    LET chunks == entry.chunks
        k == Min(top_n, Len(chunks))
    IN  {[i \in 1..k |->
            [chunk_index |-> o[i] - 1,
             text        |-> chunks[o[i]],
             score       |-> Score(query, entry.index[o[i]])]] :
         o \in SearchOrders(entry, query, k)}

\* retrieve_chunks taking the text of each result from its rank in the search
retrieve_chunks_TextByRank(session_id, query, top_n) ==
    IF session_indexes[session_id] = NONE THEN {<<>>}
    ELSE LET entry == session_indexes[session_id][1]
         IN  {[i \in 1..Len(r) |-> [r[i] EXCEPT !.text = entry.chunks[i]]] :
                r \in SearchResults(entry, query, top_n)}

\* lines 60-95: the lists retrieve_chunks can return, called on its own
retrieve_chunks(session_id, query, top_n) ==
    IF session_indexes[session_id] = NONE THEN {<<>>}
    ELSE SearchResults(session_indexes[session_id][1], query, top_n)

\* ------------------------------------------------------------- pipeline.py
_get_prompts(hindi) ==
    IF hindi
    THEN [system_prompt |-> SYSTEM_PROMPT_HI, dont_know |-> DONT_KNOW_HI,
          no_docs |-> NO_DOCS_HI, lang |-> "hi"]
    ELSE [system_prompt |-> SYSTEM_PROMPT_EN, dont_know |-> DONT_KNOW_EN,
          no_docs |-> NO_DOCS_EN, lang |-> "en"]

\* lines 188-192: the stripped lines of a chunk that carry a lab keyword
MeaningfulLines(text) ==
    LET raw == SplitLines(text)
        stripped == [i \in 1..Len(raw) |-> Strip(raw[i])]
        keep == {i \in 1..Len(raw) :
                    /\ Len(stripped[i]) > FB_MIN_LINE
                    /\ \E kw \in LAB_KEYWORDS : Contains(Upper(stripped[i]), kw)}
    IN  SelectSeqIdx(stripped, keep)

\* MeaningfulLines of the texts of the model, evaluated once
MEANINGFUL_OF == [k \in 1..Len(FB_TEXTS) |-> MeaningfulLines(FB_TEXTS[k])]

Meaningful(text) ==
    IF \E k \in 1..Len(FB_TEXTS) : FB_TEXTS[k] = text
    THEN MEANINGFUL_OF[CHOOSE k \in 1..Len(FB_TEXTS) : FB_TEXTS[k] = text]
    ELSE MeaningfulLines(text)

\* the loop of lines 186-194 over all of retrieved instead of retrieved[:3]
RECURSIVE FallbackLines_AllChunks(_, _)
FallbackLines_AllChunks(retrieved, i) ==
    IF i >= Len(retrieved) THEN <<>>
    ELSE LET meaningful == Meaningful(retrieved[i + 1].text)
         IN  (IF Len(meaningful) > 0
              THEN <<Label(i) \o FB_LABEL_GAP \o Join(Take(meaningful, FB_LINES), FB_LINE_SEP)>>
              ELSE <<>>)
             \o FallbackLines_AllChunks(retrieved, i + 1)

\* lines 186-194: one labelled entry per chunk that has a meaningful line
RECURSIVE FallbackLines(_, _)
FallbackLines(retrieved, i) ==
    IF i >= Min(FB_CHUNKS, Len(retrieved)) THEN <<>>
    ELSE LET meaningful == Meaningful(retrieved[i + 1].text)
         IN  (IF Len(meaningful) > 0
              THEN <<Label(i) \o FB_LABEL_GAP \o Join(Take(meaningful, FB_LINES), FB_LINE_SEP)>>
              ELSE <<>>)
             \o FallbackLines(retrieved, i + 1)

\* _fallback_answer whose last return leaves the disclaimer out
_fallback_answer_BareTop(retrieved, hindi) ==
    LET lines == FallbackLines(retrieved, 0)
        disclaimer == IF hindi THEN DISCLAIMER_HI ELSE DISCLAIMER_EN
        prefix == IF hindi THEN FB_PREFIX_HI ELSE FB_PREFIX_EN
        fallback_prefix == IF hindi THEN FB_TOP_PREFIX_HI ELSE FB_TOP_PREFIX_EN
        top == IF Len(retrieved) > 0 THEN Take(retrieved[1].text, EXCERPT_LEN) ELSE <<>>
    IN  IF Len(lines) > 0
        THEN prefix \o Join(lines, NEWLINE) \o disclaimer
        ELSE fallback_prefix \o top \o FB_ELLIPSIS

_fallback_answer(retrieved, hindi) ==
    LET lines == FallbackLines(retrieved, 0)
        disclaimer == IF hindi THEN DISCLAIMER_HI ELSE DISCLAIMER_EN
        prefix == IF hindi THEN FB_PREFIX_HI ELSE FB_PREFIX_EN
        fallback_prefix == IF hindi THEN FB_TOP_PREFIX_HI ELSE FB_TOP_PREFIX_EN
        top == IF Len(retrieved) > 0 THEN Take(retrieved[1].text, EXCERPT_LEN) ELSE <<>>
    IN  IF Len(lines) > 0
        THEN prefix \o Join(lines, NEWLINE) \o disclaimer
        ELSE fallback_prefix \o top \o FB_ELLIPSIS \o disclaimer

\* What requests.post / raise_for_status / response.json can do (lines 141-148):
\* a 2xx reply whose JSON carries `response`, or a failure of one of five kinds.
BackendOutcomes ==
    {[kind |-> "ok", text |-> t] : t \in {REPLY_TEXT, REPLY_PADDED, REPLY_SPACES, <<>>}}
    \cup {[kind |-> k, text |-> <<>>] :
            k \in {"connection_error", "timeout", "http_error", "bad_json", "no_field"}}

\* _call_ollama without its last handler, `except Exception`: the HTTPError of
\* raise_for_status and the ValueError of response.json leave the function
_call_ollama_NoCatchAll(retrieved, hindi, outcome) ==
    CASE outcome.kind = "ok" ->
            LET answer == Strip(outcome.text)
            IN  IF Len(answer) = 0
                THEN [raised |-> FALSE, requests |-> 1, text |-> _fallback_answer(retrieved, hindi)]
                ELSE [raised |-> FALSE, requests |-> 1, text |-> answer]
      [] outcome.kind \in {"no_field", "connection_error", "timeout"} ->
            [raised |-> FALSE, requests |-> 1, text |-> _fallback_answer(retrieved, hindi)]
      [] OTHER ->
            [raised |-> TRUE, requests |-> 1, text |-> <<>>]

\* _call_ollama without the `if not answer` test: a blank reply is returned as
\* it is
_call_ollama_NoBlankTest(retrieved, hindi, outcome) ==
    CASE outcome.kind = "ok" ->
            [raised |-> FALSE, requests |-> 1, text |-> Strip(outcome.text)]
      [] OTHER ->
            [raised |-> FALSE, requests |-> 1, text |-> _fallback_answer(retrieved, hindi)]

\* _call_ollama with a second request after a timeout
_call_ollama_RetryOnTimeout(retrieved, hindi, outcome) ==
    CASE outcome.kind = "ok" ->
            LET answer == Strip(outcome.text)
            IN  IF Len(answer) = 0
                THEN [raised |-> FALSE, requests |-> 1,
                      text |-> _fallback_answer(retrieved, hindi)]
                ELSE [raised |-> FALSE, requests |-> 1, text |-> answer]
      [] outcome.kind = "timeout" ->
            [raised |-> FALSE, requests |-> 2, text |-> _fallback_answer(retrieved, hindi)]
      [] OTHER ->
            [raised |-> FALSE, requests |-> 1, text |-> _fallback_answer(retrieved, hindi)]

\* lines 140-165: the value _call_ollama returns or the exception it lets out, and
\* the number of requests.post calls it made (one, at line 141)
_call_ollama(retrieved, hindi, outcome) ==
    CASE outcome.kind = "ok" ->
            LET answer == Strip(outcome.text)
            IN  IF Len(answer) = 0
                THEN [raised |-> FALSE, requests |-> 1, text |-> _fallback_answer(retrieved, hindi)]
                ELSE [raised |-> FALSE, requests |-> 1, text |-> answer]
      [] outcome.kind = "no_field" ->
            \* data.get("response", "") is "" and the empty answer falls back
            [raised |-> FALSE, requests |-> 1, text |-> _fallback_answer(retrieved, hindi)]
      [] outcome.kind = "connection_error" ->
            [raised |-> FALSE, requests |-> 1, text |-> _fallback_answer(retrieved, hindi)]
      [] outcome.kind = "timeout" ->
            [raised |-> FALSE, requests |-> 1, text |-> _fallback_answer(retrieved, hindi)]
      [] OTHER ->
            \* HTTPError of raise_for_status, ValueError of response.json
            [raised |-> FALSE, requests |-> 1, text |-> _fallback_answer(retrieved, hindi)]

\* the context numbered by chunk ordinal
ContextBlock_ByChunkIndex(retrieved) ==
    Join([i \in 1..Len(retrieved) |->
            Label(retrieved[i].chunk_index) \o SPACE
            \o Take(retrieved[i].text, CONTEXT_LEN)],
         <<NEWLINE, NEWLINE>>)

\* lines 106-110: the numbered context of the user message
ContextBlock(retrieved) ==
    Join([i \in 1..Len(retrieved) |->
            Label(i - 1) \o SPACE \o Take(retrieved[i].text, CONTEXT_LEN)],
         <<NEWLINE, NEWLINE>>)

\* the citations labelled from 0
Citations_LabelsFromZero(retrieved, chunk_db_ids, source_names) ==
    [i \in 1..Len(retrieved) |->
        LET chunk_idx == retrieved[i].chunk_index
        IN  [label      |-> <<"[">> \o IntToStr(i - 1) \o <<"]">>,
             chunk_id   |-> IF chunk_idx < Len(chunk_db_ids)
                            THEN Some(chunk_db_ids[chunk_idx + 1]) ELSE NONE,
             source_doc |-> IF chunk_idx < Len(source_names)
                            THEN source_names[chunk_idx + 1] ELSE DOCUMENT,
             excerpt    |-> Take(retrieved[i].text, EXCERPT_LEN)]]

\* lines 297-311
Citations(retrieved, chunk_db_ids, source_names) ==
    [i \in 1..Len(retrieved) |->
        LET chunk_idx == retrieved[i].chunk_index
        IN  [label      |-> Label(i - 1),
             chunk_id   |-> IF chunk_idx < Len(chunk_db_ids)
                            THEN Some(chunk_db_ids[chunk_idx + 1]) ELSE NONE,
             source_doc |-> IF chunk_idx < Len(source_names)
                            THEN source_names[chunk_idx + 1] ELSE DOCUMENT,
             excerpt    |-> Take(retrieved[i].text, EXCERPT_LEN)]]

\* the emergency answer without the category's message
SafetyReturn_NoMessage(safety, lang) ==
    [answer            |-> SAFETY_PREFIX
                           \o (IF lang = "hi" THEN SAFETY_SUFFIX_HI ELSE SAFETY_SUFFIX_EN),
     citations         |-> <<>>,
     safety_triggered  |-> TRUE,
     emergency_message |-> safety.emergency_message,
     retrieved         |-> <<>>]

\* lines 246-266
SafetyReturn(safety, lang) ==
    [answer            |-> SAFETY_PREFIX \o safety.emergency_message[1]
                           \o (IF lang = "hi" THEN SAFETY_SUFFIX_HI ELSE SAFETY_SUFFIX_EN),
     citations         |-> <<>>,
     safety_triggered  |-> TRUE,
     emergency_message |-> safety.emergency_message,
     retrieved         |-> <<>>]

\* the "no documents" return with the flag of the block above it
NoDocsReturn_Flagged(no_docs) ==
    [answer            |-> no_docs,
     citations         |-> <<>>,
     safety_triggered  |-> TRUE,
     emergency_message |-> NONE,
     retrieved         |-> <<>>]

\* lines 269-276
NoDocsReturn(no_docs) ==
    [answer            |-> no_docs,
     citations         |-> <<>>,
     safety_triggered  |-> FALSE,
     emergency_message |-> NONE,
     retrieved         |-> <<>>]

\* the "don't know" return that drops the retrieved results
DontKnowReturn_NoResults(dont_know, retrieved) ==
    [answer            |-> dont_know,
     citations         |-> <<>>,
     safety_triggered  |-> FALSE,
     emergency_message |-> NONE,
     retrieved         |-> <<>>]

\* lines 284-291
DontKnowReturn(dont_know, retrieved) ==
    [answer            |-> dont_know,
     citations         |-> <<>>,
     safety_triggered  |-> FALSE,
     emergency_message |-> NONE,
     retrieved         |-> retrieved]

\* the final return without its emergency_message key
AnswerReturn_NoEmergencyKey(answer, citations, retrieved) ==
    [answer            |-> answer,
     citations         |-> citations,
     safety_triggered  |-> FALSE,
     retrieved         |-> retrieved]

\* lines 313-319
AnswerReturn(answer, citations, retrieved) ==
    [answer            |-> answer,
     citations         |-> citations,
     safety_triggered  |-> FALSE,
     emergency_message |-> NONE,
     retrieved         |-> retrieved]

\* --------------------------------------------------- the caller's chunk rows
SessionRows(session_id) == {i \in 1..Len(rows) : rows[i].session_id = session_id}

ConfirmedRows(session_id) ==
    {i \in SessionRows(session_id) : rows[i].is_confirmed = 1}

\* rag/routes.py 39-44: the confirmed rows ordered by chunk_index; rows of equal
\* chunk_index (two uploads of one session) come in an order the query leaves open
ChunkOrders(session_id) ==
    LET S == ConfirmedRows(session_id)
        n == Cardinality(S)
    IN  {o \in [1..n -> S] :
            /\ \A a, b \in 1..n : a # b => o[a] # o[b]
            /\ \A a, b \in 1..n : a < b => rows[o[a]].chunk_index <= rows[o[b]].chunk_index}

UploadName(upload_id) ==
    LET u == {i \in 1..Len(uploads) : uploads[i].id = upload_id}
    IN  IF u = {} THEN DOCUMENT ELSE uploads[CHOOSE i \in u : TRUE].original_name

\* rag/routes.py 45-57: the three parallel lists
_get_session_chunks(o) ==
    [chunk_texts  |-> [i \in 1..Len(o) |->
                        IF rows[o[i]].edited_text # NONE /\ Len(rows[o[i]].edited_text[1]) > 0
                        THEN rows[o[i]].edited_text[1] ELSE rows[o[i]].chunk_text],
     chunk_db_ids |-> [i \in 1..Len(o) |-> rows[o[i]].id],
     source_names |-> [i \in 1..Len(o) |-> UploadName(rows[o[i]].upload_id)]]

\* ------------------------------------------------------------------ state
NoEvents == [exists |-> 0, build |-> 0, search |-> 0, backend |-> 0]

\* Session 1 has one upload whose NumRows extracted chunks await review
\* (intake/routes.py 104-135); session 2 has no document.
InitProgram ==
    /\ uploads = <<[id |-> 1, session_id |-> 1, original_name |-> NAME_LAB]>>
    /\ rows = [i \in 1..NumRows |->
                [id           |-> i,
                 upload_id    |-> 1,
                 session_id   |-> 1,
                 chunk_index  |-> i - 1,
                 chunk_text   |-> TEXTS[((i - 1) % Len(TEXTS)) + 1],
                 edited_text  |-> NONE,
                 is_confirmed |-> 0]]
    /\ session_indexes = [s \in Sessions |-> NONE]
    /\ builds = [s \in Sessions |-> 0]
    /\ pc = [t \in Threads |-> "idle"]
    /\ call = [t \in Threads |-> NONE]
    /\ store = [t \in Threads |-> NONE]
    /\ found = [t \in Threads |-> NONE]
    /\ backend = [t \in Threads |-> NONE]
    /\ ev = [t \in Threads |-> NoEvents]
    /\ result = [t \in Threads |-> NONE]
    /\ raced = [t \in Threads |-> FALSE]
    /\ invalidated = [s \in Sessions |-> FALSE]
    /\ context = [t \in Threads |-> NONE]

\* vector_store.py 13 and twotower/retrieval.py 19: `_model = None` in each module
MODULES == {"vector_store", "twotower"}
NotGetting == [module |-> "", pc |-> "idle", value |-> NONE]

InitLoader ==
    /\ _model = [m \in MODULES |-> NONE]
    /\ loaded = 0
    /\ getting = [t \in Threads |-> NotGetting]

\* models.py: safety_flagged defaults to 0, the tables start empty
REPORT_TYPES == {"patient", "pharmacy"}

InitRequests ==
    /\ safety_flagged = [s \in Sessions |-> 0]
    /\ audit_log = {}
    /\ reports = {}
    /\ emails = {}
    /\ rag_retrievals = <<>>
    /\ response = "none"
    /\ triggered = [s \in Sessions |-> FALSE]

InitComponents ==
    /\ chunking = NONE
    /\ InitLoader
    /\ InitRequests

Init ==
    /\ InitProgram
    /\ InitComponents
    /\ fn_in = NONE
    /\ fn_out = NONE

InFlight(t) == pc[t] \notin {"idle", "done", "raised", "saved"}

\* upload/routes.py 50-68: every row whose form field is not blank takes the typed
\* text and is confirmed
FORM_TEXTS == {<<>>} \cup {TEXTS[i] : i \in 1..Len(TEXTS)}

review(session_id, form) ==
    /\ SessionRows(session_id) # {}
    /\ rows' = [i \in 1..Len(rows) |->
                    IF i \in SessionRows(session_id) /\ Len(Strip(form[i])) > 0
                    THEN [rows[i] EXCEPT !.edited_text = Some(Strip(form[i])),
                                         !.is_confirmed = 1]
                    ELSE rows[i]]
    /\ UNCHANGED <<uploads, session_indexes, builds, pc, call, store, found, backend, ev, result, raced,
                   invalidated, function_vars, context, component_vars>>

\* invalidate_session clearing the whole cache
invalidate_session_ClearAll(session_id) ==
    /\ session_indexes' = [s \in Sessions |-> NONE]
    /\ builds' = [s \in Sessions |-> 0]
    /\ raced' = [t \in Threads |-> raced[t] \/ InFlight(t)]
    /\ invalidated' = [s \in Sessions |-> invalidated[s] \/ session_indexes[s] # NONE]
    /\ UNCHANGED <<uploads, rows, pc, call, store, found, backend, ev, result,
                   function_vars, context, component_vars>>

\* vector_store.py 98-100
invalidate_session(session_id) ==
    /\ session_indexes' = [session_indexes EXCEPT ![session_id] = NONE]
    /\ builds' = [builds EXCEPT ![session_id] = 0]
    /\ raced' = [t \in Threads |->
                    raced[t] \/ (InFlight(t) /\ call[t][1].session_id = session_id)]
    /\ invalidated' = [invalidated EXCEPT
                        ![session_id] = @ \/ session_indexes[session_id] # NONE]
    /\ UNCHANGED <<uploads, rows, pc, call, store, found, backend, ev, result, function_vars, context, component_vars>>

\* vector_store.py 30-57, called directly
build_session_index(session_id, chunks) ==
    /\ builds[session_id] < MaxBuilds
    /\ IF Len(chunks) = 0
       THEN UNCHANGED <<session_indexes, builds>>
       ELSE /\ session_indexes' =
                    [session_indexes EXCEPT ![session_id] = Some(IndexEntry(chunks))]
            /\ builds' = [builds EXCEPT ![session_id] = @ + 1]
    /\ UNCHANGED <<uploads, rows, pc, call, store, found, backend, ev, result, raced,
                   invalidated, function_vars, context, component_vars>>

Finished(t, value) ==
    /\ pc' = [pc EXCEPT ![t] = "done"]
    /\ result' = [result EXCEPT ![t] = Some(value)]

\* pipeline.py 242-276: run_rag up to the call of ensure_index
Start(t, session_id, question, hindi, lists) ==
    /\ pc[t] = "idle"
    /\ LET prompts == _get_prompts(hindi)
           safety == Safety(question)
       IN  /\ call' = [call EXCEPT ![t] = Some(
                        [session_id   |-> session_id,
                         question     |-> question,
                         chunks       |-> lists.chunk_texts,
                         chunk_db_ids |-> lists.chunk_db_ids,
                         source_names |-> lists.source_names,
                         top_n        |-> TOP_N,
                         hindi        |-> hindi])]
           /\ IF safety.triggered
              THEN Finished(t, SafetyReturn(safety, prompts.lang))
              ELSE IF Len(lists.chunk_texts) = 0
              THEN Finished(t, NoDocsReturn(prompts.no_docs))
              ELSE /\ pc' = [pc EXCEPT ![t] = "ensure"]
                   /\ UNCHANGED result
    /\ ev' = [ev EXCEPT ![t] = NoEvents]
    /\ raced' = [raced EXCEPT ![t] = FALSE]
    /\ context' = [context EXCEPT ![t] = NONE]
    /\ UNCHANGED <<uploads, rows, session_indexes, builds, store, found, backend, invalidated,
                   function_vars, component_vars>>

\* ensure_index without the session_index_exists test: every call builds
ensure_index_Unconditional(t) ==
    /\ pc[t] = "ensure"
    /\ pc' = [pc EXCEPT ![t] = "building"]
    /\ ev' = [ev EXCEPT ![t].exists = @ + 1]
    /\ UNCHANGED <<uploads, rows, session_indexes, builds, call, store, found, backend, result,
                   raced, invalidated, function_vars, context, component_vars>>

\* pipeline.py 215-218: ensure_index up to the call of build_session_index
ensure_index(t) ==
    /\ pc[t] = "ensure"
    /\ pc' = [pc EXCEPT ![t] =
                IF session_index_exists(call[t][1].session_id)
                THEN "search_check" ELSE "building"]
    /\ ev' = [ev EXCEPT ![t].exists = @ + 1]
    /\ UNCHANGED <<uploads, rows, session_indexes, builds, call, store, found, backend, result, raced,
                   invalidated, function_vars, context, component_vars>>

\* vector_store.py 38-57: the build that ensure_index started stores its entry
BuildCommit(t) ==
    /\ pc[t] = "building"
    /\ session_indexes' = [session_indexes EXCEPT
                            ![call[t][1].session_id] = Some(IndexEntry(call[t][1].chunks))]
    /\ builds' = [builds EXCEPT ![call[t][1].session_id] = @ + 1]
    /\ ev' = [ev EXCEPT ![t].build = @ + 1]
    /\ pc' = [pc EXCEPT ![t] = "search_check"]
    /\ UNCHANGED <<uploads, rows, call, store, found, backend, result, raced,
                   invalidated, function_vars, context, component_vars>>

\* vector_store.py 65-66: retrieve_chunks returns [] when the id has no entry
SearchCheck(t) ==
    /\ pc[t] = "search_check"
    /\ ev' = [ev EXCEPT ![t].search = @ + 1]
    /\ IF session_indexes[call[t][1].session_id] = NONE
       THEN /\ pc' = [pc EXCEPT ![t] = "policy"]
            /\ found' = [found EXCEPT ![t] = Some(<<>>)]
       ELSE /\ pc' = [pc EXCEPT ![t] = "search_load"]
            /\ UNCHANGED found
    /\ UNCHANGED <<uploads, rows, session_indexes, builds, call, store, backend, result, raced,
                   invalidated, function_vars, context, component_vars>>

\* vector_store.py 68: the subscript raises KeyError when the entry is gone
SearchLoad(t) ==
    /\ pc[t] = "search_load"
    /\ IF session_indexes[call[t][1].session_id] = NONE
       THEN /\ pc' = [pc EXCEPT ![t] = "raised"]
            /\ UNCHANGED store
       ELSE /\ pc' = [pc EXCEPT ![t] = "search"]
            /\ store' = [store EXCEPT ![t] = session_indexes[call[t][1].session_id]]
    /\ UNCHANGED <<uploads, rows, session_indexes, builds, call, found, backend, ev,
                   result, raced,
                   invalidated, function_vars, context, component_vars>>

\* vector_store.py 69-95: the search on the loaded entry
Search(t, results) ==
    /\ pc[t] = "search"
    /\ found' = [found EXCEPT ![t] = Some(results)]
    /\ pc' = [pc EXCEPT ![t] = "policy"]
    /\ UNCHANGED <<uploads, rows, session_indexes, builds, call, store, backend, ev,
                   result, raced,
                   invalidated, function_vars, context, component_vars>>

\* pipeline.py 284-319: the sufficiency policy, the backend call, the citations
Finish(t, outcome) ==
    /\ pc[t] = "policy"
    /\ LET c == call[t][1]
           got == found[t][1]
           prompts == _get_prompts(c.hindi)
       IN  IF ~is_retrieval_sufficient(got)
           THEN /\ Finished(t, DontKnowReturn(prompts.dont_know, got))
                /\ UNCHANGED <<ev, backend, context>>
           ELSE LET reply == _call_ollama(got, c.hindi, outcome)
                IN  /\ ev' = [ev EXCEPT ![t].backend = @ + reply.requests]
                    /\ backend' = [backend EXCEPT ![t] = Some(outcome)]
                    /\ context' = [context EXCEPT ![t] = Some(ContextBlock(got))]
                    /\ IF reply.raised
                       THEN /\ pc' = [pc EXCEPT ![t] = "raised"]
                            /\ UNCHANGED result
                       ELSE Finished(t, AnswerReturn(reply.text,
                                Citations(got, c.chunk_db_ids, c.source_names),
                                got))
    /\ UNCHANGED <<uploads, rows, session_indexes, builds, call, store, found, raced,
                   invalidated, function_vars, component_vars>>

\* the call is over: its frame is dropped
Return(t) ==
    /\ pc[t] \in {"done", "raised", "saved"}
    /\ pc' = [pc EXCEPT ![t] = "idle"]
    /\ call' = [call EXCEPT ![t] = NONE]
    /\ store' = [store EXCEPT ![t] = NONE]
    /\ found' = [found EXCEPT ![t] = NONE]
    /\ backend' = [backend EXCEPT ![t] = NONE]
    /\ ev' = [ev EXCEPT ![t] = NoEvents]
    /\ result' = [result EXCEPT ![t] = NONE]
    /\ raced' = [raced EXCEPT ![t] = FALSE]
    /\ context' = [context EXCEPT ![t] = NONE]
    /\ UNCHANGED <<uploads, rows, session_indexes, builds, invalidated, function_vars,
                   component_vars>>

\* _log_audit of rag/routes.py 60-67 (reports/routes.py and email/routes.py have
\* the same function): one AuditLog row is added
_log_audit(session_id, event_type) == audit_log \cup {<<session_id, event_type>>}

\* ------------------------------------------------------- intake/routes.py
\* lines 71-79: the submitted fields in the order of the dict: age, sex,
\* chief_complaint, duration, medications, allergies, additional_notes.  The second
\* form names an emergency in one field, the third across two fields.
INTAKE_FORMS ==
    <<  <<<<"4", "0">>,
      <<"F">>,
      <<"c", "o", "u", "g", "h">>,
      <<"3", " ", "d", "a", "y", "s">>,
      <<>>,
      <<>>,
      <<>>>>,
      <<  <<"6", "1">>,
      <<"M">>,
      <<"c", "h", "e", "s", "t", " ", "p", "a", "i", "n">>,
      <<"1", " ", "h", "o", "u", "r">>,
      <<"a", "s", "p", "i", "r", "i", "n">>,
      <<>>,
      <<"s", "w", "e", "a", "t", "i", "n", "g">>>>,
      <<  <<"3", "5">>,
      <<"F">>,
      <<"t", "i", "g", "h", "t", " ", "c", "h", "e", "s", "t">>,
      <<"p", "a", "i", "n", " ", "s", "i", "n", "c", "e", " ", "n", "o", "o", "n">>,
      <<>>,
      <<"n", "o", "n", "e">>,
      <<>>>>>>

\* triage.py 118-124
check_intake_safety(intake_fields) ==
    check_safety(Join(SelectSeq(intake_fields, LAMBDA v : Len(v) > 0), SPACE))

\* check_intake_safety of the forms of the model, evaluated once
INTAKE_SAFETY_OF == [k \in 1..Len(INTAKE_FORMS) |-> check_intake_safety(INTAKE_FORMS[k])]

IntakeSafety(intake_fields) ==
    INTAKE_SAFETY_OF[CHOOSE k \in 1..Len(INTAKE_FORMS) : INTAKE_FORMS[k] = intake_fields]

\* lines 55-172: intake_form on a valid submission, with no file or with a file
\* that save_upload rejects with ValueError (an accepted file adds the Upload and
\* ExtractedChunk rows that session 1 starts with).  The flag is set on the
\* session object (line 90); the ValueError handler rolls the transaction back
\* (line 155), the other path commits it (line 164).  No audit row is added.  The
\* IntakeField rows, which no handler of the model reads, are left out.
intake_form(session_id, intake_fields, pdf) ==
    /\ LET safety == IntakeSafety(intake_fields)
       IN  /\ triggered' = [triggered EXCEPT ![session_id] = @ \/ safety.triggered]
           /\ IF pdf = "rejected"
              THEN /\ UNCHANGED safety_flagged
                   /\ response' = "intake_rejected"
              ELSE /\ safety_flagged' =
                        [safety_flagged EXCEPT ![session_id] =
                            IF safety.triggered THEN 1 ELSE @]
                   /\ response' = "intake_saved"
    /\ UNCHANGED <<program_vars, function_vars, chunking, loader_vars, audit_log, reports,
                   emails, rag_retrievals>>

\* ------------------------------------------------------ reports/routes.py
Answer(name) ==
    /\ response' = name
    /\ UNCHANGED <<safety_flagged, audit_log, reports, emails>>

\* generate_report without the test of safety_flagged
generate_report_Ungated(session_id, report_type, has_diseases, rendered) ==
    /\ IF report_type \notin REPORT_TYPES THEN Answer("invalid_type")
       ELSE IF ~has_diseases THEN Answer("needs_matching")
       ELSE IF ~rendered THEN Answer("pdf_failed")
       ELSE /\ reports' = reports \cup {<<session_id, report_type>>}
            /\ audit_log' = _log_audit(session_id, "report_generated")
            /\ response' = "report_generated"
            /\ UNCHANGED <<safety_flagged, emails>>
    /\ UNCHANGED <<program_vars, function_vars, chunking, loader_vars, rag_retrievals,
                   triggered>>

\* lines 133-206: has_diseases is what _gather_session_data found, rendered
\* whether render_report_pdf and save_pdf went through
generate_report(session_id, report_type, has_diseases, rendered) ==
    /\ IF report_type \notin REPORT_TYPES THEN Answer("invalid_type")
       ELSE IF safety_flagged[session_id] # 0 /\ report_type = "pharmacy"
       THEN Answer("pharmacy_disabled")
       ELSE IF ~has_diseases THEN Answer("needs_matching")
       ELSE IF ~rendered THEN Answer("pdf_failed")
       ELSE /\ reports' = reports \cup {<<session_id, report_type>>}
            /\ audit_log' = _log_audit(session_id, "report_generated")
            /\ response' = "report_generated"
            /\ UNCHANGED <<safety_flagged, emails>>
    /\ UNCHANGED <<program_vars, function_vars, chunking, loader_vars, rag_retrievals,
                   triggered>>

\* -------------------------------------------------------- email/routes.py
\* lines 44-128: consent_page for a report of the session; pharmacy_email is
\* whether the settings hold one, submitted whether the consent form validates,
\* sent what send_pharmacy_report reports
consent_page(session_id, report_type, pharmacy_email, submitted, sent) ==
    /\ <<session_id, report_type>> \in reports
    /\ IF report_type # "pharmacy" THEN Answer("not_pharmacy")
       ELSE IF safety_flagged[session_id] # 0 THEN Answer("sharing_disabled")
       ELSE IF ~pharmacy_email THEN Answer("no_pharmacy")
       ELSE IF ~submitted THEN Answer("consent_form")
       ELSE /\ emails' = emails \cup {session_id}
            /\ audit_log' = audit_log \cup
                    {<<session_id, "email_consent_given">>,
                     <<session_id, IF sent THEN "email_sent" ELSE "email_failed">>}
            /\ response' = IF sent THEN "email_sent" ELSE "email_failed"
            /\ UNCHANGED <<safety_flagged, reports>>
    /\ UNCHANGED <<program_vars, function_vars, chunking, loader_vars, rag_retrievals,
                   triggered>>

\* ---------------------------------------------------------- rag/routes.py
\* lines 120-195: send_message up to its call of run_rag.  A message that is
\* blank after strip() is answered with the 400 'Message cannot be empty.'; one
\* that triggers check_safety flags the session, logs the audit event, commits and
\* answers with the emergency text; any other goes to run_rag with the session's
\* lists.
send_message(t, session_id, message, hindi, lists) ==
    /\ pc[t] = "idle"
    /\ LET user_text == Strip(message)
       IN  IF Len(user_text) = 0
           THEN /\ response' = "message_empty"
                /\ UNCHANGED <<program_vars, function_vars, chunking, loader_vars,
                               safety_flagged, audit_log, reports, emails, rag_retrievals,
                               triggered>>
           ELSE IF Safety(user_text).triggered
           THEN /\ safety_flagged' = [safety_flagged EXCEPT ![session_id] = 1]
                /\ audit_log' = _log_audit(session_id, "safety_triggered")
                /\ triggered' = [triggered EXCEPT ![session_id] = TRUE]
                /\ response' = "emergency"
                /\ UNCHANGED <<program_vars, function_vars, chunking, loader_vars,
                               reports, emails, rag_retrievals>>
           ELSE Start(t, session_id, user_text, hindi, lists)

\* list.index(x): the 0-based position of the first element equal to x
IndexOf(seq, x) ==
    (CHOOSE i \in 1..Len(seq) : seq[i] = x /\ \A j \in 1..(i - 1) : seq[j] # x) - 1

\* lines 215-219: next((r['score'] for r in retrieved if r['chunk_index'] == n), 0.0)
ScoreAtChunkIndex(retrieved, n) ==
    LET hits == {i \in 1..Len(retrieved) : retrieved[i].chunk_index = n}
    IN  IF hits = {} THEN 0
        ELSE retrieved[CHOOSE i \in hits : \A j \in hits : i <= j].score

\* lines 209-222: one RagRetrieval row for each citation that has a chunk_id
RetrievalRows(value) ==
    LET cs == value.citations
    IN  SelectSeqIdx(
            [i \in 1..Len(cs) |->
                [chunk_id         |-> IF cs[i].chunk_id = NONE THEN 0 ELSE cs[i].chunk_id[1],
                 similarity_score |-> ScoreAtChunkIndex(value.retrieved, IndexOf(cs, cs[i])),
                 citation_label   |-> cs[i].label,
                 source_doc_name  |-> cs[i].source_doc]],
            {i \in 1..Len(cs) : cs[i].chunk_id # NONE /\ cs[i].chunk_id # Some(0)})

\* lines 197-224: the assistant message and its retrieval rows are committed
SaveRetrievals(t) ==
    /\ pc[t] = "done"
    /\ pc' = [pc EXCEPT ![t] = "saved"]
    /\ rag_retrievals' = RetrievalRows(result[t][1])
    /\ response' = "answer"
    /\ UNCHANGED <<uploads, rows, session_indexes, builds, call, store, found, backend, ev,
                   result, raced, invalidated, context, function_vars, chunking, loader_vars,
                   safety_flagged, audit_log, reports, emails, triggered>>

\* lines 226-231: the JSON answer leaves; an exception of run_rag leaves as it is
Respond(t) ==
    /\ pc[t] \in {"saved", "raised"}
    /\ Return(t)

\* ------------------------------------------------------------ specifications
\* the parallel lists a caller of run_rag can pass
CALLER_LISTS ==
    {[chunk_texts |-> <<>>, chunk_db_ids |-> <<>>, source_names |-> <<>>],
     [chunk_texts |-> <<TEXT_LAB>>, chunk_db_ids |-> <<1>>, source_names |-> <<NAME_LAB>>],
     [chunk_texts |-> <<TEXT_NOTE>>, chunk_db_ids |-> <<2>>, source_names |-> <<NAME_SCAN>>],
     [chunk_texts  |-> <<TEXT_NOTE, TEXT_LAB>>,
      chunk_db_ids |-> <<2, 1>>,
      source_names |-> <<NAME_SCAN, NAME_LAB>>],
     [chunk_texts  |-> <<TEXT_NOTE, TEXT_NOTE>>,
      chunk_db_ids |-> <<2, 3>>,
      source_names |-> <<NAME_SCAN, NAME_SCAN>>],
     \* a caller whose lists differ in length
     [chunk_texts  |-> <<TEXT_NOTE, TEXT_LAB>>,
      chunk_db_ids |-> <<2>>,
      source_names |-> <<>>]}

QuestionSet == {QUESTIONS[i] : i \in 1..Len(QUESTIONS)}

DoReview ==
    \E s \in Sessions : \E form \in [SessionRows(s) -> FORM_TEXTS] : review(s, form)

DoInvalidate == \E s \in Sessions : invalidate_session(s)

DoBuild ==
    \E s \in Sessions, lists \in CALLER_LISTS : build_session_index(s, lists.chunk_texts)

\* run_rag called with any of the caller lists
DoStart(t) ==
    \E s \in Sessions, q \in QuestionSet, hindi \in BOOLEAN, lists \in CALLER_LISTS :
        Start(t, s, q, hindi, lists)

\* send_message on the session's confirmed rows (rag/routes.py 184)
DoSendMessage(t, messages) ==
    \E s \in Sessions, m \in messages, hindi \in BOOLEAN :
        \E o \in ChunkOrders(s) : send_message(t, s, m, hindi, _get_session_chunks(o))

DoSearch(t) ==
    \E results \in
        (IF store[t] = NONE THEN {}
         ELSE SearchResults(store[t][1], call[t][1].question, call[t][1].top_n)) :
        Search(t, results)

DoFinish(t, outcomes) == \E outcome \in outcomes : Finish(t, outcome)

Run(t, outcomes) ==
    \/ ensure_index(t)
    \/ BuildCommit(t)
    \/ SearchCheck(t)
    \/ SearchLoad(t)
    \/ DoSearch(t)
    \/ DoFinish(t, outcomes)

Step(t, outcomes) ==
    \/ Run(t, outcomes)
    \/ Return(t)

AllIdle == \A t \in Threads : pc[t] = "idle"
Worker == CHOOSE t \in Threads : TRUE

\* The index API used by one caller at a time: run_rag on any lists, and direct
\* calls of build_session_index and invalidate_session between the calls.
Next ==
    \/ AllIdle /\ DoInvalidate
    \/ AllIdle /\ DoBuild
    \/ DoStart(Worker)
    \/ Step(Worker, BackendOutcomes)

Spec == Init /\ [][Next]_vars

\* The application as it is wired, one request at a time: review confirms and
\* edits rows, send_message asks questions; nothing calls invalidate_session.
NextStored ==
    \/ AllIdle /\ DoReview
    \/ DoSendMessage(Worker, QuestionSet)
    \/ Run(Worker, BackendOutcomes)
    \/ SaveRetrievals(Worker)
    \/ Respond(Worker)

SpecStored == Init /\ [][NextStored]_vars

\* The routes that set or read a session's safety flag, one request at a time:
\* send_message with the messages it answers itself (the blank one and the
\* emergencies), intake_form, generate_report and consent_page.
EARLY_MESSAGES == {m \in QuestionSet : Len(Strip(m)) = 0 \/ Safety(m).triggered}

DoIntake ==
    \E s \in Sessions, k \in 1..Len(INTAKE_FORMS), pdf \in {"none", "rejected"} :
        intake_form(s, INTAKE_FORMS[k], pdf)

DoGenerate ==
    \E s \in Sessions, report_type \in REPORT_TYPES \cup {"summary"} :
        \E has_diseases \in BOOLEAN, rendered \in BOOLEAN :
            generate_report(s, report_type, has_diseases, rendered)

DoConsent ==
    \E s \in Sessions, report_type \in REPORT_TYPES :
        \E pharmacy_email \in BOOLEAN, submitted \in BOOLEAN, sent \in BOOLEAN :
            consent_page(s, report_type, pharmacy_email, submitted, sent)

NextRequests ==
    \/ DoSendMessage(Worker, EARLY_MESSAGES)
    \/ DoIntake
    \/ DoGenerate
    \/ DoConsent

SpecRequests == Init /\ [][NextRequests]_vars

\* Requests served by concurrent threads: every step of a call interleaves with
\* the steps of the other calls and with invalidate_session.
\* The threads ask the glucose question, in English, about one session, whose
\* lists hold the lab text at the first or at the second position; the backend
\* answers or times out.
ThreadSessions == {CHOOSE s \in Sessions : TRUE}
ThreadLists ==
    {l \in CALLER_LISTS :
        /\ Len(l.chunk_db_ids) = Len(l.chunk_texts)
        /\ \E i \in 1..Len(l.chunk_texts) : l.chunk_texts[i] = TEXT_LAB}

ThreadOutcomes ==
    {o \in BackendOutcomes : o.kind = "timeout" \/ o.text = REPLY_TEXT}

DoStartThread(t) ==
    \E s \in ThreadSessions, lists \in ThreadLists :
        Start(t, s, Q_GLUCOSE, FALSE, lists)

NextThreads ==
    \/ DoInvalidate
    \/ \E t \in Threads : DoStartThread(t)
    \/ \E t \in Threads : Step(t, ThreadOutcomes)

SpecThreads == Init /\ [][NextThreads]_vars

\* The functions of triage.py and _fallback_answer applied on their own, each to
\* one input: a text made of up to MaxPieces pieces, or a list of up to
\* MaxRetrieved results.
SAFETY_TEXTS ==
    {Join(ps, SPACE) : ps \in UNION {[1..n -> PIECES] : n \in 0..MaxPieces}}

\* scores below, at and above the threshold
SCORES == {0, MIN_RETRIEVAL_SCORE - 1, MIN_RETRIEVAL_SCORE, 90}

ScoredResults ==
    {[i \in 1..Len(sc) |-> [chunk_index |-> i - 1, text |-> TEXT_LAB, score |-> sc[i]]] :
        sc \in UNION {[1..n -> SCORES] : n \in 0..MaxRetrieved}}

TextResults ==
    {[i \in 1..Len(ix) |-> [chunk_index |-> i - 1, text |-> FB_TEXTS[ix[i]], score |-> 90]] :
        ix \in UNION {[1..n -> 1..Len(FB_TEXTS)] : n \in 0..MaxRetrieved}}

FunctionInputs ==
    {[fn |-> "check_safety", text |-> t, retrieved |-> <<>>, hindi |-> FALSE] :
        t \in SAFETY_TEXTS}
    \cup {[fn |-> "is_retrieval_sufficient", text |-> <<>>, retrieved |-> r, hindi |-> FALSE] :
            r \in ScoredResults}
    \cup {[fn |-> "_fallback_answer", text |-> <<>>, retrieved |-> r, hindi |-> h] :
            r \in TextResults, h \in BOOLEAN}

InitFunctions ==
    /\ InitProgram
    /\ InitComponents
    /\ fn_in \in {Some(x) : x \in FunctionInputs}
    /\ fn_out = NONE

Applying(name) == fn_in # NONE /\ fn_in[1].fn = name /\ fn_out = NONE

CheckSafetyCall ==
    /\ Applying("check_safety")
    /\ fn_out' = Some(check_safety(fn_in[1].text))
    /\ UNCHANGED <<program_vars, fn_in, component_vars>>

SufficientCall ==
    /\ Applying("is_retrieval_sufficient")
    /\ fn_out' = Some(is_retrieval_sufficient(fn_in[1].retrieved))
    /\ UNCHANGED <<program_vars, fn_in, component_vars>>

FallbackCall ==
    /\ Applying("_fallback_answer")
    /\ fn_out' = Some(_fallback_answer(fn_in[1].retrieved, fn_in[1].hindi))
    /\ UNCHANGED <<program_vars, fn_in, component_vars>>

NextFunctions ==
    \/ CheckSafetyCall
    \/ SufficientCall
    \/ FallbackCall

SpecFunctions == InitFunctions /\ [][NextFunctions]_vars

\* The index cache used through its own API, one call at a time:
\* build_session_index, invalidate_session and retrieve_chunks on any session id.
\* The arguments of the last retrieve_chunks call, with the cache entry it found,
\* are kept in fn_in and the list it returned in fn_out.
TOP_NS == {1, TOP_N}

DoRetrieve ==
    \E s \in Sessions, q \in QuestionSet, n \in TOP_NS :
        \E results \in retrieve_chunks(s, q, n) :
            /\ fn_in' = Some([fn         |-> "retrieve_chunks",
                              session_id |-> s,
                              query      |-> q,
                              top_n      |-> n,
                              entry      |-> session_indexes[s]])
            /\ fn_out' = Some(results)
            /\ UNCHANGED <<program_vars, component_vars>>

NextIndex ==
    \/ DoBuild
    \/ DoInvalidate
    \/ DoRetrieve

SpecIndex == Init /\ [][NextIndex]_vars

\* ------------------------------------------------------------- get_model
\* get_model of vector_store.py 16-23 and of twotower/retrieval.py 22-28, called
\* by threads that interleave: the test of the module's global, the construction
\* and assignment, and the return, which reads the global again.
GetModelTest(t, module) ==
    /\ getting[t].pc = "idle"
    /\ getting' = [getting EXCEPT ![t] =
            [module |-> module,
             pc     |-> IF _model[module] = NONE THEN "load" ELSE "return",
             value  |-> NONE]]
    /\ UNCHANGED <<program_vars, function_vars, chunking, _model, loaded, request_vars>>

GetModelLoad(t) ==
    /\ getting[t].pc = "load"
    /\ loaded' = loaded + 1
    /\ _model' = [_model EXCEPT ![getting[t].module] = Some(loaded + 1)]
    /\ getting' = [getting EXCEPT ![t].pc = "return"]
    /\ UNCHANGED <<program_vars, function_vars, chunking, request_vars>>

GetModelReturn(t) ==
    /\ getting[t].pc = "return"
    /\ getting' = [getting EXCEPT ![t].pc = "encode",
                                   ![t].value = _model[getting[t].module]]
    /\ UNCHANGED <<program_vars, function_vars, chunking, _model, loaded, request_vars>>

\* the caller has encoded with the instance it got (vector_store.py 41, 74;
\* twotower/retrieval.py 70) and is done
Encoded(t) ==
    /\ getting[t].pc = "encode"
    /\ getting' = [getting EXCEPT ![t] = NotGetting]
    /\ UNCHANGED <<program_vars, function_vars, chunking, _model, loaded, request_vars>>

NextLoader ==
    \/ \E t \in Threads, module \in MODULES : GetModelTest(t, module)
    \/ \E t \in Threads : GetModelLoad(t)
    \/ \E t \in Threads : GetModelReturn(t)
    \/ \E t \in Threads : Encoded(t)

SpecLoader == Init /\ [][NextLoader]_vars

\* ------------------------------------------------------------- chunker.py
\* chunk_text of rag/chunker.py (upload/extractor.py 99-123 is the same function),
\* one loop iteration at a time.  The texts hold up to MaxWords different words
\* separated by one space or by a newline and a space, with or without blanks
\* around them; chunk_size is 1..MaxChunkSize and overlap 0..MaxChunkSize.
Word(k) == <<"w">> \o IntToStr(k)

CHUNK_TEXTS ==
    {pad \o Join([k \in 1..n |-> Word(k)], sep) \o pad :
        n \in 0..MaxWords, sep \in {SPACE, NEWLINE \o SPACE}, pad \in {<<>>, SPACE}}

ChunkCalls ==
    {[text |-> t, chunk_size |-> c, overlap |-> o, pc |-> "call",
      words |-> <<>>, start |-> 0, chunks |-> <<>>] :
        t \in CHUNK_TEXTS, c \in 1..MaxChunkSize, o \in 0..MaxChunkSize}

\* the loop is followed for at most this many chunks
MaxChunks == MaxWords + 2

InitChunker ==
    /\ InitProgram
    /\ InitLoader
    /\ InitRequests
    /\ fn_in = NONE
    /\ fn_out = NONE
    /\ chunking \in {Some(c) : c \in ChunkCalls}

\* lines 22-28: [] for a blank text, else the words and the empty list
ChunkEnter ==
    /\ chunking # NONE
    /\ chunking[1].pc = "call"
    /\ LET c == chunking[1]
       IN  IF Len(c.text) = 0 \/ Len(Strip(c.text)) = 0
           THEN chunking' = Some([c EXCEPT !.pc = "returned"])
           ELSE chunking' = Some([c EXCEPT !.pc = "loop", !.words = Split(c.text)])
    /\ UNCHANGED <<program_vars, function_vars, loader_vars, request_vars>>

\* a loop that steps by chunk_size alone
NextStart_NoOverlap(start, chunk_size, overlap) == start + chunk_size

\* line 33
NextStart(start, chunk_size, overlap) == start + chunk_size - overlap

\* lines 27-35: the loop test and one iteration
ChunkLoop ==
    /\ chunking # NONE
    /\ chunking[1].pc = "loop"
    /\ Len(chunking[1].chunks) < MaxChunks
    /\ LET c == chunking[1]
           end == c.start + c.chunk_size
           chunk == Join(Slice(c.words, c.start, end), SPACE)
       IN  IF ~(c.start < Len(c.words))
           THEN chunking' = Some([c EXCEPT !.pc = "returned"])
           ELSE IF end >= Len(c.words)
           THEN chunking' = Some([c EXCEPT !.chunks = Append(@, chunk),
                                           !.pc = "returned"])
           ELSE chunking' = Some([c EXCEPT
                        !.chunks = Append(@, chunk),
                        !.start = NextStart(c.start, c.chunk_size, c.overlap)])
    /\ UNCHANGED <<program_vars, function_vars, loader_vars, request_vars>>

NextChunker ==
    \/ ChunkEnter
    \/ ChunkLoop

SpecChunker == InitChunker /\ [][NextChunker]_vars

\* ------------------------------------------------------------------ claims
Calling(t) == call[t] # NONE
Args(t) == call[t][1]
Returned(t) == pc[t] = "done"
Value(t) == result[t][1]
Triggers(t) == Calling(t) /\ check_safety(Args(t).question).triggered
Localized(t) == _get_prompts(Args(t).hindi)

CARDIAC_EMERGENCY ==
    <<"c", "a", "r", "d", "i", "a", "c", " ", "e", "m", "e", "r", "g", "e", "n", "c", "y">>

\* C1: a call of run_rag whose question triggers check_safety has returned as
\* soon as it exists (it is never at ensure_index, a build, a search or the
\* backend), with safety_triggered true, no citations, no retrieved results, the
\* matched category's message as emergency_message and inside the answer, and
\* without an index lookup, a build, a search or a backend request; "I have
\* chest pain" is category cardiac and answers with "cardiac emergency".
C1_SafetyShortCircuit ==
    \A t \in Threads :
        Triggers(t) =>
            LET verdict == check_safety(Args(t).question)
                message == EMERGENCY_MESSAGES[verdict.category[1]]
            IN  /\ Returned(t)
                /\ Value(t).safety_triggered = TRUE
                /\ Value(t).citations = <<>>
                /\ Value(t).retrieved = <<>>
                /\ Value(t).emergency_message = Some(message)
                /\ Contains(Value(t).answer, message)
                /\ ev[t] = NoEvents
                /\ found[t] = NONE /\ backend[t] = NONE
                /\ Args(t).question = Q_CHEST =>
                      /\ verdict.category = Some("cardiac")
                      /\ Contains(Value(t).answer, CARDIAC_EMERGENCY)

\* the chest-pain question asked with chunks supplied while the index of that
\* session id is cached
C1_Witness ==
    \E t \in Threads :
        /\ Returned(t)
        /\ Args(t).question = Q_CHEST
        /\ Len(Args(t).chunks) > 0
        /\ session_indexes[Args(t).session_id] # NONE
        /\ Value(t).safety_triggered

\* C2: a call whose question does not trigger safety, whose chunks are not empty
\* and whose retrieval results are insufficient returns the fixed "don't know"
\* answer of its language with no citations, safety_triggered false, no
\* emergency message and the non-empty retrieval results as retrieved, and has
\* made no backend request.
C2_InsufficientDontKnow ==
    \A t \in Threads :
        ( /\ Returned(t)
          /\ ~Triggers(t)
          /\ Len(Args(t).chunks) > 0
          /\ found[t] # NONE
          /\ ~is_retrieval_sufficient(found[t][1]) ) =>
            /\ Value(t).answer = Localized(t).dont_know
            /\ Value(t).citations = <<>>
            /\ Value(t).safety_triggered = FALSE
            /\ Value(t).emergency_message = NONE
            /\ Value(t).retrieved = found[t][1]
            /\ Len(Value(t).retrieved) > 0
            /\ ev[t].backend = 0 /\ backend[t] = NONE

C2_Witness ==
    \E t \in Threads :
        /\ Returned(t)
        /\ ~Triggers(t)
        /\ found[t] # NONE
        /\ Len(found[t][1]) = 2
        /\ ~is_retrieval_sufficient(found[t][1])
        /\ Value(t).answer = DONT_KNOW_HI

\* C3: whenever the backend request of a call ends in connection refused, a
\* timeout, a non-2xx status, an unparseable or field-less payload, or an empty
\* or whitespace-only response text, the call has returned (nothing was raised)
\* and its answer is the offline fallback text of its retrieved results, with
\* safety_triggered false and one citation per retrieved result.
BackendFailed(outcome) == outcome.kind # "ok" \/ Len(Strip(outcome.text)) = 0

C3_BackendFailureFallsBack ==
    \A t \in Threads :
        (backend[t] # NONE /\ BackendFailed(backend[t][1])) =>
            /\ Returned(t)
            /\ Value(t).answer = _fallback_answer(found[t][1], Args(t).hindi)
            /\ Value(t).safety_triggered = FALSE
            /\ Value(t).retrieved = found[t][1]
            /\ Len(Value(t).citations) = Len(found[t][1])
            /\ Len(Value(t).citations) > 0

\* a timed-out request answered with the fallback text
C3_Witness ==
    \E t \in Threads :
        /\ Returned(t)
        /\ backend[t] # NONE
        /\ backend[t][1].kind = "timeout"
        /\ EndsWith(Value(t).answer, DISCLAIMER_EN)

\* C4: a call whose question does not trigger safety and whose chunk list is
\* empty has returned as soon as it exists, with the fixed "no documents" answer
\* of its language, no citations, no retrieved results, safety_triggered false
\* and no emergency message, and without an index lookup, a build, a search or a
\* backend request.
C4_NoDocuments ==
    \A t \in Threads :
        (Calling(t) /\ ~Triggers(t) /\ Len(Args(t).chunks) = 0) =>
            /\ Returned(t)
            /\ Value(t).answer = Localized(t).no_docs
            /\ Value(t).citations = <<>>
            /\ Value(t).retrieved = <<>>
            /\ Value(t).safety_triggered = FALSE
            /\ Value(t).emergency_message = NONE
            /\ ev[t] = NoEvents
            /\ found[t] = NONE /\ backend[t] = NONE

\* no chunks supplied for a session id whose index is cached
C4_Witness ==
    \E t \in Threads :
        /\ Returned(t)
        /\ ~Triggers(t)
        /\ Len(Args(t).chunks) = 0
        /\ session_indexes[Args(t).session_id] # NONE
        /\ Value(t).answer = NO_DOCS_EN

\* C5: every call of run_rag that returned, returned retrieved results and
\* citations that agree with the chunk list passed to that call: each result's
\* chunk_index lies in the list, its text is the chunk at that position, and the
\* citation made from it carries that chunk's excerpt, database id and source
\* name -- also when the confirmed rows changed after the index was cached.
C5_NeverOutdated ==
    \A t \in Threads :
        Returned(t) =>
            \A i \in 1..Len(Value(t).retrieved) :
                LET r == Value(t).retrieved[i]
                    chunks == Args(t).chunks
                IN  /\ r.chunk_index < Len(chunks)
                    /\ r.text = chunks[r.chunk_index + 1]
                    /\ i <= Len(Value(t).citations) =>
                          LET c == Value(t).citations[i]
                          IN  /\ c.excerpt = Take(chunks[r.chunk_index + 1], EXCERPT_LEN)
                              /\ c.chunk_id = Some(Args(t).chunk_db_ids[r.chunk_index + 1])
                              /\ c.source_doc = Args(t).source_names[r.chunk_index + 1]

\* C6: no two calls are inside a build of the same session id at the same time.
Building(t) == pc[t] = "building"

C6_OneBuildAtATime ==
    \A t1, t2 \in Threads :
        (t1 # t2 /\ Building(t1) /\ Building(t2)) =>
            Args(t1).session_id # Args(t2).session_id

\* C7: a call during which invalidate_session ran on its session id never
\* raises, and what it returns is either empty or agrees with the chunk list the
\* call resolves it against (chunk_index inside the list, text the chunk at that
\* position).
C7_InvalidateSynchronized ==
    \A t \in Threads :
        (Calling(t) /\ raced[t]) =>
            /\ pc[t] # "raised"
            /\ Returned(t) =>
                  \A i \in 1..Len(Value(t).retrieved) :
                      LET r == Value(t).retrieved[i]
                      IN  /\ r.chunk_index < Len(Args(t).chunks)
                          /\ r.text = Args(t).chunks[r.chunk_index + 1]

\* C8: in calls that run one after the other, a call that got past
\* ensure_index finds the index of its session id built; it tested
\* session_index_exists once and built at most once, and when it built, its
\* build is the only one executed for that id since the id was last invalidated
\* (or since the start): a later call builds again only after invalidate_session.
PastEnsure(t) ==
    \/ pc[t] \in {"search_check", "search_load", "search", "policy"}
    \/ pc[t] \in {"done", "raised"} /\ ev[t].exists > 0

C8_BuildsOnceUntilInvalidated ==
    \A t \in Threads :
        (Calling(t) /\ PastEnsure(t)) =>
            /\ session_index_exists(Args(t).session_id)
            /\ builds[Args(t).session_id] >= 1
            /\ ev[t].exists = 1
            /\ ev[t].build <= 1
            /\ ev[t].build = 1 => builds[Args(t).session_id] = 1

\* an entry of the id was invalidated, one build has run since, and a later call
\* searched without building
C8_Witness ==
    \E t \in Threads :
        /\ Returned(t)
        /\ invalidated[Args(t).session_id]
        /\ builds[Args(t).session_id] = 1
        /\ ev[t].exists = 1
        /\ ev[t].build = 0
        /\ ev[t].search = 1

\* C9: a step that leaves the cached entry of a session id as it was (a build
\* over the chunks the entry was built from) does not count as a build: the
\* chunks are not embedded again and the entry is not stored again.
C9_SecondBuildIsNoOp ==
    [][\A s \in Sessions :
          (session_index_exists(s) /\ session_indexes'[s] = session_indexes[s]) =>
              builds'[s] = builds[s]]_vars

\* C10: whatever path a call of run_rag returned by (safety, no documents,
\* insufficient evidence, synthesized answer, fallback answer), the value is a
\* dict with exactly the keys answer, citations, safety_triggered,
\* emergency_message and retrieved, whose citations and retrieved are lists and
\* whose safety_triggered is a boolean.
RESULT_KEYS == {"answer", "citations", "safety_triggered", "emergency_message", "retrieved"}
IsList(x) == DOMAIN x = 1..Len(x)

C10_OneShape ==
    \A t \in Threads :
        Returned(t) =>
            /\ DOMAIN Value(t) = RESULT_KEYS
            /\ IsList(Value(t).citations)
            /\ IsList(Value(t).retrieved)
            /\ Value(t).safety_triggered \in BOOLEAN

\* a call that returned the fallback text of a failed backend request, with its
\* citations
C10_Witness ==
    \E t \in Threads :
        /\ Returned(t)
        /\ backend[t] # NONE
        /\ backend[t][1].kind = "connection_error"
        /\ Len(Value(t).citations) = 2
        /\ DOMAIN Value(t) = RESULT_KEYS
\* C11: in calls that run one after the other, no call of run_rag raises, and
\* the answer of every call that returned is a non-empty string that is not
\* blank -- whatever the question, the lists, the retrieval and the backend
\* outcome, a blank or empty backend reply included.
C11_AnswerNeverEmpty ==
    \A t \in Threads :
        Calling(t) =>
            /\ pc[t] # "raised"
            /\ Returned(t) =>
                  /\ Len(Value(t).answer) > 0
                  /\ \E i \in 1..Len(Value(t).answer) : Value(t).answer[i] \notin WHITESPACE

\* the backend replied with spaces only and the call returned an answer
C11_Witness ==
    \E t \in Threads :
        /\ Returned(t)
        /\ backend[t] = Some([kind |-> "ok", text |-> REPLY_SPACES])
        /\ Len(Value(t).answer) > 0

\* C12: a call that returned after its backend request returns one citation per
\* retrieved result, in retrieval order: citation i (counted from 1) is labelled
\* "[i]" and carries the excerpt of result i; its source_doc is the source name at
\* the result's chunk_index, or "Document" when source_names has no such entry;
\* its chunk_id is the id at chunk_index, or None when chunk_db_ids has no such
\* entry.
OnSynthesisPath(t) == Returned(t) /\ backend[t] # NONE
GENERIC_SOURCE == <<"D", "o", "c", "u", "m", "e", "n", "t">>
LABEL_1 == <<"[", "1", "]">>
LABEL_2 == <<"[", "2", "]">>

C12_OneCitationPerResult ==
    \A t \in Threads :
        OnSynthesisPath(t) =>
            LET r == Value(t).retrieved
                c == Value(t).citations
            IN  /\ r = found[t][1]
                /\ Len(c) = Len(r)
                /\ Len(c) >= 1 => c[1].label = LABEL_1
                /\ Len(c) >= 2 => c[2].label = LABEL_2
                /\ \A i \in 1..Len(c) :
                      LET k == r[i].chunk_index
                      IN  /\ c[i].label = <<"[">> \o IntToStr(i) \o <<"]">>
                          /\ c[i].excerpt = Take(r[i].text, 300)
                          /\ c[i].source_doc = IF k < Len(Args(t).source_names)
                                               THEN Args(t).source_names[k + 1]
                                               ELSE GENERIC_SOURCE
                          /\ c[i].chunk_id = IF k < Len(Args(t).chunk_db_ids)
                                             THEN Some(Args(t).chunk_db_ids[k + 1])
                                             ELSE NONE

\* two citations, one of them for a result without source name and without id
C12_Witness ==
    \E t \in Threads :
        /\ OnSynthesisPath(t)
        /\ Len(Value(t).citations) = 2
        /\ \E i \in 1..2 :
              /\ Value(t).citations[i].source_doc = GENERIC_SOURCE
              /\ Value(t).citations[i].chunk_id = NONE
              /\ Value(t).retrieved[i].chunk_index >= Len(Args(t).chunk_db_ids)

\* C13: a call that returned after its backend request returns as many citations
\* as it has retrieved results whose chunk_index has an entry in chunk_db_ids.
Resolvable(t) ==
    {i \in 1..Len(Value(t).retrieved) :
        Value(t).retrieved[i].chunk_index < Len(Args(t).chunk_db_ids)}

C13_CitationsCountResolvable ==
    \A t \in Threads :
        OnSynthesisPath(t) => Len(Value(t).citations) = Cardinality(Resolvable(t))

\* C14: a call of run_rag whose chunks, chunk_db_ids and source_names differ in
\* length never returns a value.
Mismatched(t) ==
    \/ Len(Args(t).chunks) # Len(Args(t).chunk_db_ids)
    \/ Len(Args(t).chunks) # Len(Args(t).source_names)

C14_MismatchedListsRaise ==
    \A t \in Threads : (Calling(t) /\ Mismatched(t)) => ~Returned(t)

\* C18: no call of run_rag makes more than one backend request; a call whose
\* request was made made exactly one, and when that request failed (a timeout or
\* any other failure) the call has returned the offline fallback text.
C18_BackendCalledOnce ==
    \A t \in Threads :
        /\ ev[t].backend <= 1
        /\ backend[t] # NONE =>
              /\ ev[t].backend = 1
              /\ backend[t][1].kind # "ok" =>
                    /\ Returned(t)
                    /\ EndsWith(Value(t).answer,
                                IF Args(t).hindi THEN DISCLAIMER_HI ELSE DISCLAIMER_EN)

\* a call in Hindi whose one request timed out
C18_Witness ==
    \E t \in Threads :
        /\ Returned(t)
        /\ Args(t).hindi
        /\ backend[t] # NONE
        /\ backend[t][1].kind = "timeout"
        /\ ev[t].backend = 1
\* ------------------------------------------- claims about single functions
Applied(name) == fn_in # NONE /\ fn_in[1].fn = name /\ fn_out # NONE
Input == fn_in[1]
Output == fn_out[1]

\* C15: the verdict of check_safety is decided by the first phrase, in the order
\* cardiac, stroke, respiratory, mental_health_crisis, severe_allergic,
\* unconscious of the categories and the listed order of each category's
\* phrases, that occurs in the lower-cased text: category and matched_phrase are
\* that phrase's, the message is that category's, and a text in which no phrase
\* occurs is not triggered.
TRIAGE_ORDER ==
    <<"cardiac", "stroke", "respiratory", "mental_health_crisis", "severe_allergic",
      "unconscious">>

Occurring(text) ==
    {o \in (1..Len(TRIAGE_ORDER)) \X (1..10) :
        /\ o[2] <= Len(EMERGENCY_TRIGGERS[TRIAGE_ORDER[o[1]]])
        /\ Contains(Lower(text), EMERGENCY_TRIGGERS[TRIAGE_ORDER[o[1]]][o[2]])}

Before(a, b) == a[1] < b[1] \/ (a[1] = b[1] /\ a[2] < b[2])

C15_FirstMatchWins ==
    Applied("check_safety") =>
        LET occ == Occurring(Input.text)
        IN  IF occ = {}
            THEN /\ Output.triggered = FALSE
                 /\ Output.category = NONE
                 /\ Output.matched_phrase = NONE
            ELSE LET first == CHOOSE a \in occ : \A b \in occ : a = b \/ Before(a, b)
                     cat == TRIAGE_ORDER[first[1]]
                 IN  /\ Output.triggered = TRUE
                     /\ Output.category = Some(cat)
                     /\ Output.matched_phrase = Some(EMERGENCY_TRIGGERS[cat][first[2]])
                     /\ Output.emergency_message = Some(EMERGENCY_MESSAGES[cat])

\* "STROKE chest pain": the stroke phrase comes first in the text, the cardiac
\* phrase first in the table
C15_Witness ==
    /\ Applied("check_safety")
    /\ Input.text = PIECE_STROKE \o SPACE \o PIECE_CHEST_PAIN
    /\ Output.category = Some("cardiac")
    /\ Output.matched_phrase = Some(PIECE_CHEST_PAIN)

\* check_safety of every table phrase, evaluated once
PHRASE_VERDICT == [i \in 1..Len(ALL_TRIGGERS) |-> check_safety(ALL_TRIGGERS[i].phrase)]

ContainsAnyCase(text, phrase) == Contains(Lower(text), Lower(phrase))

\* C16 as stated: for every table phrase P, with C the category check_safety(P)
\* reports, every text that contains P in any letter case is triggered with
\* category C.
C16_MonotonicCategory ==
    Applied("check_safety") =>
        \A i \in 1..Len(ALL_TRIGGERS) :
            ContainsAnyCase(Input.text, ALL_TRIGGERS[i].phrase) =>
                /\ Output.triggered = TRUE
                /\ Output.category = PHRASE_VERDICT[i].category

\* the categories that come before category c in the table
EarlierCategories(c) ==
    {TRIAGE_ORDER[k] : k \in {j \in 1..Len(TRIAGE_ORDER) :
                                \E m \in 1..Len(TRIAGE_ORDER) : j < m /\ TRIAGE_ORDER[m] = c}}

\* C16 amended: for every table phrase P, with C the category check_safety(P)
\* reports, every text that contains P in any letter case is triggered; its
\* category is C unless the text also contains a phrase of a category that comes
\* before C in the table, and then it is one of those earlier categories.
C16_MonotonicTriggered ==
    Applied("check_safety") =>
        \A i \in 1..Len(ALL_TRIGGERS) :
            ContainsAnyCase(Input.text, ALL_TRIGGERS[i].phrase) =>
                LET c == PHRASE_VERDICT[i].category[1]
                    earlier == \E j \in 1..Len(ALL_TRIGGERS) :
                                  /\ ALL_TRIGGERS[j].category \in EarlierCategories(c)
                                  /\ ContainsAnyCase(Input.text, ALL_TRIGGERS[j].phrase)
                IN  /\ Output.triggered = TRUE
                    /\ ~earlier => Output.category = Some(c)
                    /\ earlier => Output.category[1] \in EarlierCategories(c)

\* "EpiPen choking": a severe_allergic phrase in mixed case next to a
\* respiratory phrase
C16_Witness ==
    /\ Applied("check_safety")
    /\ Input.text = PIECE_EPIPEN \o SPACE \o PIECE_CHOKING
    /\ Output.triggered
    /\ Output.category = Some("respiratory")

\* C17: is_retrieval_sufficient is true exactly when the list is not empty and
\* not every score is below MIN_RETRIEVAL_SCORE; a score equal to the threshold
\* is enough, the empty list is never sufficient.
C17_SufficientIffScoreReached ==
    Applied("is_retrieval_sufficient") =>
        LET r == Input.retrieved
            below == {i \in 1..Len(r) : r[i].score < MIN_RETRIEVAL_SCORE}
        IN  /\ Output \in BOOLEAN
            /\ Output = TRUE <=> (r # <<>> /\ below # 1..Len(r))
            /\ r = <<>> => Output = FALSE
            /\ (\E i \in 1..Len(r) : r[i].score = MIN_RETRIEVAL_SCORE) => Output = TRUE

\* two results whose best score is exactly the threshold
C17_Witness ==
    /\ Applied("is_retrieval_sufficient")
    /\ Len(Input.retrieved) = 2
    /\ Input.retrieved[1].score = MIN_RETRIEVAL_SCORE
    /\ Input.retrieved[2].score = MIN_RETRIEVAL_SCORE - 1
    /\ Output = TRUE

\* the text between the last two double quotes of a system prompt: the line
\* rule 8 tells the backend to end with
LastQuoted(s) ==
    LET q == {i \in 1..Len(s) : s[i] = "\""}
        hi == CHOOSE i \in q : \A j \in q : j <= i
        lo == CHOOSE i \in q \ {hi} : \A j \in q \ {hi} : j <= i
    IN  SubSeq(s, lo + 1, hi - 1)

PROMPT_LINE_EN == LastQuoted(SYSTEM_PROMPT_EN)
PROMPT_LINE_HI == LastQuoted(SYSTEM_PROMPT_HI)

\* C19: every text _fallback_answer returns ends with a blank line followed by
\* the disclaimer of the active language, its last line is the line that the
\* system prompt of that language tells the backend to end with, and that line
\* is not empty.
C19_FallbackEndsWithDisclaimer ==
    Applied("_fallback_answer") =>
        LET line == IF Input.hindi THEN PROMPT_LINE_HI ELSE PROMPT_LINE_EN
            lines == SplitLines(Output)
        IN  /\ Len(line) > 0
            /\ EndsWith(Output, NEWLINE \o NEWLINE \o line)
            /\ lines[Len(lines)] = line

\* the empty list, in Hindi
C19_Witness ==
    /\ Applied("_fallback_answer")
    /\ Input.retrieved = <<>>
    /\ Input.hindi
    /\ EndsWith(Output, PROMPT_LINE_HI)
\* the stripped lines of a text that are longer than 10 characters and contain a
\* lab keyword in any letter case
KeptLines(text) ==
    LET raw == SplitLines(text)
        stripped == [i \in 1..Len(raw) |-> Strip(raw[i])]
    IN  SelectSeqIdx(stripped,
            {i \in 1..Len(raw) :
                /\ Len(stripped[i]) > 10
                /\ \E kw \in LAB_KEYWORDS : ContainsAnyCase(stripped[i], kw)})

\* KeptLines of the texts of the model, evaluated once
KEPT_OF == [k \in 1..Len(FB_TEXTS) |-> KeptLines(FB_TEXTS[k])]
Kept(text) == KEPT_OF[CHOOSE k \in 1..Len(FB_TEXTS) : FB_TEXTS[k] = text]

\* one entry "[k] line | line ..." for each of the first 3 results that has kept
\* lines, made of its first 4 kept lines
ExpectedEntries(retrieved) ==
    LET m == Min(3, Len(retrieved))
    IN  SelectSeqIdx(
            [k \in 1..m |->
                <<"[">> \o IntToStr(k) \o <<"]", " ">>
                \o Join(Take(Kept(retrieved[k].text), 4), <<" ", "|", " ">>)],
            {k \in 1..m : Kept(retrieved[k].text) # <<>>})

\* _fallback_answer of the panel alone, in English
EXPECTED_PANEL_EN ==
    <<"F", "r", "o", "m", " ", "y", "o", "u", "r", " ", "d", "o", "c", "u", "m", "e", "n", "t",
      "s", ":", "\n", "\n", "[", "1", "]", " ", "S", "o", "d", "i", "u", "m", " ", "1", "4",
      "0", " ", "m", "m", "o", "l", "/", "L", " ", "|", " ", "G", "l", "u", "c", "o", "s", "e",
      " ", "1", "0", "0", " ", "|", " ", "w", "b", "c", " ", "c", "o", "u", "n", "t", " ", "6",
      ".", "2", " ", "|", " ", "P", "l", "a", "t", "e", "l", "e", "t", " ", "c", "o", "u", "n",
      "t", " ", "2", "5", "0", "\n", "\n", "U+2695", " ", "T", "h", "i", "s", " ", "i", "s",
      " ", "i", "n", "f", "o", "r", "m", "a", "t", "i", "o", "n", "a", "l", " ", "o", "n", "l",
      "y", ".", " ", "P", "l", "e", "a", "s", "e", " ", "c", "o", "n", "s", "u", "l", "t", " ",
      "y", "o", "u", "r", " ", "h", "e", "a", "l", "t", "h", "c", "a", "r", "e", " ", "p", "r",
      "o", "v", "i", "d", "e", "r", ".">>

\* C20: the text _fallback_answer returns is, between the prefix and the
\* disclaimer of its language, the entries of the first 3 results that have kept
\* lines, one per line and in order, each "[k] " followed by at most the first 4
\* kept lines joined by " | "; results after the third are not looked at, and
\* only when none of the first 3 has a kept line the text is instead the top
\* result's text cut to 300 characters, under the label [1].
C20_FallbackExtraction ==
    Applied("_fallback_answer") =>
        LET r == Input.retrieved
            entries == ExpectedEntries(r)
            disclaimer == IF Input.hindi THEN DISCLAIMER_HI ELSE DISCLAIMER_EN
            prefix == IF Input.hindi THEN FB_PREFIX_HI ELSE FB_PREFIX_EN
            top_prefix == IF Input.hindi THEN FB_TOP_PREFIX_HI ELSE FB_TOP_PREFIX_EN
            top == IF r = <<>> THEN <<>> ELSE Take(r[1].text, 300)
        IN  /\ Contains(top_prefix, LABEL_1)
            /\ IF entries # <<>>
               THEN Output = prefix \o Join(entries, <<"\n">>) \o disclaimer
               ELSE Output = top_prefix \o top \o <<".", ".", ".">> \o disclaimer
            /\ (r = <<[chunk_index |-> 0, text |-> TEXT_PANEL, score |-> 90]>> /\ ~Input.hindi) =>
                  Output = EXPECTED_PANEL_EN

\* four results of which only the fourth has keyword lines: the answer is the
\* first result's text cut to 300 characters
C20_Witness ==
    /\ Applied("_fallback_answer")
    /\ ~Input.hindi
    /\ Len(Input.retrieved) = 4
    /\ Input.retrieved[1].text = TEXT_LONG
    /\ Input.retrieved[2].text = TEXT_NOTE
    /\ Input.retrieved[3].text = TEXT_NOTE
    /\ Input.retrieved[4].text = TEXT_PANEL
    /\ Len(TEXT_LONG) > 300
    /\ Output = FB_TOP_PREFIX_EN \o SubSeq(TEXT_LONG, 1, 300) \o <<".", ".", ".">> \o DISCLAIMER_EN

\* C21: retrieve_chunks, called with a top_n of at least 1, returns [] for a
\* session id that has no cached entry, and for a cached entry at most
\* min(top_n, number of chunks) results, each with a chunk_index that is a
\* position of the entry's chunk list and the text of the chunk at that position.
C21_RetrieveContract ==
    Applied("retrieve_chunks") =>
        IF Input.entry = NONE
        THEN Output = <<>>
        ELSE LET chunks == Input.entry[1].chunks
             IN  /\ Len(Output) <= Min(Input.top_n, Len(chunks))
                 /\ \A i \in 1..Len(Output) :
                        /\ Output[i].chunk_index \in 0..(Len(chunks) - 1)
                        /\ Output[i].text = chunks[Output[i].chunk_index + 1]

\* a call with top_n above the two chunks of the entry returned both, the second
\* chunk first
C21_Witness ==
    /\ Applied("retrieve_chunks")
    /\ Input.entry # NONE
    /\ Input.top_n > Len(Input.entry[1].chunks)
    /\ Len(Output) = 2
    /\ Output[1].chunk_index = 1
    /\ Output[1].text = TEXT_LAB
    /\ Output[2].chunk_index = 0
    /\ Output[2].text = TEXT_NOTE

\* C22: a step of invalidate_session(c) leaves c without a cached entry, so that
\* session_index_exists(c) is false and retrieve_chunks(c, ...) returns [], leaves
\* the entry of every other session id as it was, and changes no entry at all
\* when c had none.
C22_InvalidateDropsOnlyItsEntry ==
    [][\A c \in Sessions :
        invalidate_session(c) =>
            /\ ~session_index_exists(c)'
            /\ \A q \in QuestionSet, n \in TOP_NS : retrieve_chunks(c, q, n)' = {<<>>}
            /\ \A o \in Sessions \ {c} : session_indexes'[o] = session_indexes[o]
            /\ ~session_index_exists(c) => session_indexes' = session_indexes]_vars

\* session 1 was invalidated and has no entry, a later retrieve_chunks of it
\* returned [], and the entry of session 2 is still cached
C22_Witness ==
    /\ invalidated[1]
    /\ ~session_index_exists(1)
    /\ session_index_exists(2)
    /\ Applied("retrieve_chunks")
    /\ Input.session_id = 1
    /\ Input.entry = NONE
    /\ Output = <<>>

ChunkCall == chunking[1]
ChunkStarted == chunking # NONE /\ ChunkCall.pc # "call"
ChunkReturned == chunking # NONE /\ ChunkCall.pc = "returned"

\* C23: a chunk_text call with overlap >= chunk_size raises at once instead of
\* entering its loop, and a call with overlap < chunk_size makes no more chunks
\* than the text has words, so that it ends.
C23_FailsFastOnBadOverlap ==
    ChunkStarted =>
        IF ChunkCall.overlap >= ChunkCall.chunk_size
        THEN ChunkCall.pc = "raised"
        ELSE Len(ChunkCall.chunks) <= Len(ChunkCall.words)

\* the words of a list of chunks, the first `overlap` words of every chunk after
\* the first dropped
RECURSIVE DeOverlapped(_, _)
DeOverlapped(chunks, overlap) ==
    IF Len(chunks) = 0 THEN <<>>
    ELSE DeOverlapped(SubSeq(chunks, 1, Len(chunks) - 1), overlap)
         \o (LET w == Split(chunks[Len(chunks)])
             IN  IF Len(chunks) = 1 THEN w ELSE SubSeq(w, overlap + 1, Len(w)))

\* C24: a returned chunk_text call with 0 <= overlap < chunk_size has made, for a
\* text that is not blank, chunks of which the i-th (from 0) holds the words from
\* position i*(chunk_size-overlap) on, all but the last hold exactly chunk_size
\* words, the last ends at the last word, and which de-overlapped give back the
\* whitespace-split words of the text; for an empty or blank text it has made [].
C24_SlidingWindow ==
    (ChunkReturned /\ ChunkCall.overlap < ChunkCall.chunk_size) =>
        LET c == ChunkCall
            w == Split(c.text)
            step == c.chunk_size - c.overlap
            n == Len(c.chunks)
            cw(i) == Split(c.chunks[i])
        IN  IF Len(w) = 0
            THEN c.chunks = <<>>
            ELSE /\ n >= 1
                 /\ \A i \in 1..n :
                        /\ Len(cw(i)) >= 1
                        /\ (i - 1) * step + Len(cw(i)) <= Len(w)
                        /\ \A j \in 1..Len(cw(i)) : cw(i)[j] = w[(i - 1) * step + j]
                 /\ \A i \in 1..(n - 1) : Len(cw(i)) = c.chunk_size
                 /\ (n - 1) * step + Len(cw(n)) = Len(w)
                 /\ DeOverlapped(c.chunks, c.overlap) = w

\* five words in blanks and newlines, chunk_size 3 and overlap 1, gave the chunks
\* of words 1-3, 3-5
C24_Witness ==
    /\ ChunkReturned
    /\ ChunkCall.text = SPACE \o Join([k \in 1..5 |-> Word(k)], NEWLINE \o SPACE) \o SPACE
    /\ ChunkCall.chunk_size = 3
    /\ ChunkCall.overlap = 1
    /\ ChunkCall.chunks = <<Join(<<Word(1), Word(2), Word(3)>>, SPACE),
                            Join(<<Word(3), Word(4), Word(5)>>, SPACE)>>

\* C25: a run_rag call whose question is empty or blank raises nothing, runs no
\* retrieval and makes no backend request.
C25_BlankQuestionHandledLocally ==
    \A t \in Threads :
        (Calling(t) /\ Len(Strip(Args(t).question)) = 0) =>
            /\ pc[t] # "raised"
            /\ ev[t].search = 0
            /\ ev[t].backend = 0

\* C27: at most one SentenceTransformer instance is ever created, and every
\* caller of get_model, in either module, gets that instance.
C27_OneModelInstance ==
    /\ loaded <= 1
    /\ \A t \in Threads : getting[t].value # NONE => getting[t].value = Some(1)

\* C28: every RagRetrieval row that send_message has persisted carries the score
\* of the retrieved result its citation was built from, the one at the
\* citation's position in retrieval order.
C28_StoredScoreIsCitationScore ==
    \A t \in Threads :
        pc[t] = "saved" =>
            \A i \in 1..Len(rag_retrievals), k \in 1..Len(Value(t).citations) :
                rag_retrievals[i].citation_label = Value(t).citations[k].label =>
                    rag_retrievals[i].similarity_score = Value(t).retrieved[k].score

\* C26: when a request whose safety check triggered has completed, its session
\* is persisted with safety_flagged = 1 and a 'safety_triggered' audit row of the
\* session is persisted.
C26_TriggerFlagsAndAudits ==
    \A s \in Sessions :
        triggered[s] =>
            /\ safety_flagged[s] = 1
            /\ <<s, "safety_triggered">> \in audit_log

\* the label "[k]" for k counted from 1
LabelOf(k) == <<"[">> \o IntToStr(k) \o <<"]">>

\* the text carries the label "[k]" in front of text taken from result r: as an
\* entry of kept lines, or as the bare top excerpt
LabelsResult(text, k, r) ==
    \/ /\ Len(Kept(r.text)) > 0
       /\ Contains(text, LabelOf(k) \o <<" ">> \o Kept(r.text)[1])
    \/ Contains(text, LabelOf(k) \o <<":", " ">> \o Take(r.text, 300))

\* C29: in a call that returned after its backend request, for every k the k-th
\* retrieved result is the one under "[k]" in the context sent to the backend and
\* in the k-th citation, which carries its excerpt and its chunk id; and when the
\* answer is the fallback text, every label "[k]" in it stands in front of text
\* of the k-th result, which has the k-th citation.
C29_LabelsDenoteRetrievalOrder ==
    \A t \in Threads :
        OnSynthesisPath(t) =>
            LET r == Value(t).retrieved
                c == Value(t).citations
            IN  /\ context[t] # NONE
                /\ Len(c) = Len(r)
                /\ \A k \in 1..Len(r) :
                      /\ Contains(context[t][1],
                                  LabelOf(k) \o <<" ">> \o Take(r[k].text, 600))
                      /\ c[k].label = LabelOf(k)
                      /\ c[k].excerpt = Take(r[k].text, 300)
                      /\ r[k].chunk_index < Len(Args(t).chunk_db_ids) =>
                            c[k].chunk_id = Some(Args(t).chunk_db_ids[r[k].chunk_index + 1])
                /\ BackendFailed(backend[t][1]) =>
                      \A k \in 1..TOP_N :
                          Contains(Value(t).answer, LabelOf(k)) =>
                              /\ k <= Len(r)
                              /\ LabelsResult(Value(t).answer, k, r[k])

\* the lab text is the second chunk and the first result: after a timeout it is
\* under "[1]" in the context, in the fallback answer and in the citations
C29_Witness ==
    \E t \in Threads :
        /\ OnSynthesisPath(t)
        /\ backend[t][1].kind = "timeout"
        /\ Len(Value(t).retrieved) = 2
        /\ Value(t).retrieved[1].chunk_index = 1
        /\ Value(t).retrieved[1].text = TEXT_LAB
        /\ Contains(context[t][1], LabelOf(1) \o <<" ">> \o TEXT_LAB)
        /\ Contains(Value(t).answer, LabelOf(1) \o <<" ">> \o Kept(TEXT_LAB)[1])
        /\ Value(t).citations[1].label = LabelOf(1)
        /\ Value(t).citations[1].chunk_id = Some(1)

\* C30: a request served while a session's persisted safety_flagged is 1 leaves
\* the flag at 1, adds no pharmacy report of the session and gives none of its
\* reports to send_pharmacy_report.
C30_FlagMonotonicAndGating ==
    [][\A s \in Sessions :
        safety_flagged[s] = 1 =>
            /\ safety_flagged'[s] = 1
            /\ <<s, "pharmacy">> \in reports' => <<s, "pharmacy">> \in reports
            /\ s \in emails' => s \in emails]_vars

\* session 1 got its patient and pharmacy reports, was flagged by an emergency
\* message, and its consent page then refused to share the pharmacy report
C30_Witness ==
    /\ safety_flagged[1] = 1
    /\ <<1, "safety_triggered">> \in audit_log
    /\ <<1, "pharmacy">> \in reports
    /\ 1 \notin emails
    /\ response = "sharing_disabled"
====
